---------------------------- MODULE Spec2Model ----------------------------
(***************************************************************************)
(* zo-worker-swarm: the dependency-aware batch scheduler, the batch        *)
(* executors, the event log and the status / readiness projections.        *)
(*                                                                         *)
(* Each component has a specification of its own (SpecSched, SpecLoad,     *)
(* SpecExec, SpecGate, SpecStatus, SpecLog, SpecRoundTrip, SpecRead,       *)
(* SpecSession, SpecPlan, SpecValues, SpecPoll, SpecGateLogs, SpecDrive);   *)
(* the variables of the other components stay at their initial value.     *)
(***************************************************************************)
EXTENDS Integers, Sequences, FiniteSets, TLC

VARIABLES
    \* ---- TaskParser.get_execution_order (src/src/task_parser.py)
    tasks,        \* the argument: a list of TaskDefinition (name, dependencies)
    spc,          \* position in get_execution_order
    completed,    \* the local set `completed` (task names)
    batches,      \* the local list `batches`; a batch lists positions of `tasks`
    remaining,    \* the names carried by the circular-dependency error
    \* ---- the hooks (src/src/hooks): readers of plan.json and events.jsonl
    plan,         \* plan.json: the list plan["tasks"] (id, dependencies)
    log,          \* events.jsonl as the hooks see it: its non-blank lines, parsed
    \* ---- the batch executors (SSHExecutor, OrchestratorAgent)
    kind,         \* which executor runs: "ssh" or "agent"
    ccr_instance, \* task.ccr_instance of each TaskDefinition (ssh)
    xpc,          \* position in execute_all_batches / OrchestratorAgent.run
    xbatches,     \* the batches the executor iterates over
    cur,          \* index of the batch of the current iteration
    wst,          \* per task: where its unit of work stands
    unit,         \* per task (ssh): its subprocess and the timer of wait_for
    all_results,  \* the local list `all_results`
    \* ---- EventLogger (src/src/event_logger.py) and its producers
    file,         \* events.jsonl where emit writes it: its text, a list of lexemes
    producers,    \* the producers that emit in this run
    logger,       \* per producer: the EventLogger object it holds
    lock,         \* per EventLogger object: who holds its _lock
    ppc,          \* per producer: position in emit
    pend,         \* per producer: the text its write has still to put out
    emitted,      \* per producer: the events of its emit calls, in call order
    now,          \* the clock: index in Timestamps of datetime.utcnow()
    \* ---- TaskParser.load_from_file (src/src/task_parser.py)
    task_file,    \* the YAML task file: what is at the path
    lpc,          \* position in ZoWorkerSwarm.run up to the end of loading
    \* ---- readers of events.jsonl
    exists,       \* whether events.jsonl exists
    reads,        \* the calls of the readers so far, with what they returned
    \* ---- the session directory: plan.json, the archive, the last call
    plan_exists,  \* whether plan.json exists
    archive_file, \* the side file archive() wrote last: its text, if any
    last_call     \* the last operation on the session directory: the log it found, its result

schedVars == <<tasks, spc, completed, batches, remaining>>
hookVars == <<plan, log>>
execVars == <<kind, ccr_instance, xpc, xbatches, cur, wst, unit, all_results>>
logVars == <<file, producers, logger, lock, ppc, pend, emitted, now>>

loadVars == <<task_file, lpc>>
sessVars == <<plan_exists, archive_file, last_call>>
readVars == <<exists, reads, sessVars>>

notSchedVars == <<hookVars, execVars, logVars, loadVars, readVars>>
notHookVars == <<schedVars, execVars, logVars, loadVars, readVars>>

vars == <<schedVars, hookVars, execVars, logVars, loadVars, readVars>>

(***************************************************************************)
(* Sequence helpers                                                        *)
(***************************************************************************)
Range(s) == {s[i] : i \in DOMAIN s}

\* the positions 1..n as a list, to filter in input order
Positions(n) == [i \in 1..n |-> i]

(***************************************************************************)
(* TaskParser: inputs                                                      *)
(***************************************************************************)
MaxTasks == 3

\* task names a YAML file may use; a dependency on a name that no task of
\* the list carries is a reference to a non-existent task
TaskNames == {"A", "B", "C"}

TaskDefinition == [name : TaskNames, dependencies : SUBSET TaskNames]

\* parse_tasks appends one TaskDefinition per YAML entry and checks nothing
\* across entries: two entries may carry the same name
TaskLists == UNION {[1..n -> TaskDefinition] : n \in 0..MaxTasks}

NamesOf(ts) == {ts[i].name : i \in DOMAIN ts}

(***************************************************************************)
(* TaskParser.validate_dependencies                                        *)
(***************************************************************************)
validate_dependencies_AlwaysTrue(ts) == TRUE

validate_dependencies(ts) ==
    LET task_names == NamesOf(ts)
    IN  \A i \in DOMAIN ts : \A dep \in ts[i].dependencies : dep \in task_names

(***************************************************************************)
(* TaskParser.get_execution_order, one pass of the while loop              *)
(***************************************************************************)
deps_met_Any(task, done) ==
    task.dependencies = {} \/ \E dep \in task.dependencies : dep \in done

\* deps_met = all(dep in completed for dep in task.dependencies)
deps_met(task, done) == \A dep \in task.dependencies : dep \in done

ready_tasks_Reversed(ts, done) ==
    LET Keep(i) == ts[i].name \notin done /\ deps_met(ts[i], done)
        ready == SelectSeq(Positions(Len(ts)), Keep)
    IN  [k \in DOMAIN ready |-> ready[Len(ready) + 1 - k]]

ready_tasks_FirstOnly(ts, done) ==
    LET Keep(i) == ts[i].name \notin done /\ deps_met(ts[i], done)
        ready == SelectSeq(Positions(Len(ts)), Keep)
    IN  IF ready = <<>> THEN <<>> ELSE <<ready[1]>>

ready_tasks_Again(ts, done) ==
    LET Keep(i) == deps_met(ts[i], done)
    IN  SelectSeq(Positions(Len(ts)), Keep)

\* ready_tasks, as positions of ts in input order
ready_tasks(ts, done) ==
    LET Keep(i) == ts[i].name \notin done /\ deps_met(ts[i], done)
    IN  SelectSeq(Positions(Len(ts)), Keep)

\* remaining = [t.name for t in tasks if t.name not in completed]
remaining_names(ts, done) ==
    LET Keep(i) == ts[i].name \notin done
        idx == SelectSeq(Positions(Len(ts)), Keep)
    IN  [k \in DOMAIN idx |-> ts[idx[k]].name]

SchedIdle ==
    /\ tasks = <<>>
    /\ spc = "off"
    /\ completed = {}
    /\ batches = <<>>
    /\ remaining = <<>>

HooksIdle ==
    /\ plan = <<>>
    /\ log = <<>>

ExecIdle ==
    /\ kind = "off"
    /\ ccr_instance = <<>>
    /\ xpc = "off"
    /\ xbatches = <<>>
    /\ cur = 0
    /\ wst = <<>>
    /\ unit = <<>>
    /\ all_results = <<>>

LogIdle ==
    /\ file = <<>>
    /\ producers = {}
    /\ logger = <<>>
    /\ lock = <<>>
    /\ ppc = <<>>
    /\ pend = <<>>
    /\ emitted = <<>>
    /\ now = 1

LoadIdle ==
    /\ task_file = <<>>
    /\ lpc = "off"

\* no operation on the session directory yet
NoCall == [op |-> "none"]

SessIdle ==
    /\ plan_exists = TRUE
    /\ archive_file = <<>>
    /\ last_call = NoCall

ReadIdle ==
    /\ exists = TRUE
    /\ reads = <<>>
    /\ SessIdle

SchedInit ==
    /\ tasks \in TaskLists
    /\ spc = "validate"
    /\ completed = {}
    /\ batches = <<>>
    /\ remaining = <<>>
    /\ HooksIdle
    /\ ExecIdle
    /\ LogIdle
    /\ LoadIdle
    /\ ReadIdle

\* lines 158-165: validate first, then the empty `completed` and `batches`
Validate ==
    /\ spc = "validate"
    /\ spc' = IF validate_dependencies(tasks) THEN "loop" ELSE "invalid"
    /\ UNCHANGED <<tasks, completed, batches, remaining, notSchedVars>>

\* lines 167-186: one iteration that finds ready tasks
NextBatch ==
    /\ spc = "loop"
    /\ Cardinality(completed) < Len(tasks)
    /\ LET ready == ready_tasks(tasks, completed)
       IN  /\ ready # <<>>
           /\ batches' = Append(batches, ready)
           /\ completed' = completed \cup {tasks[ready[k]].name : k \in DOMAIN ready}
    /\ UNCHANGED <<tasks, spc, remaining, notSchedVars>>

\* lines 176-179: no task is ready, raise the circular-dependency error
RaiseCircular ==
    /\ spc = "loop"
    /\ Cardinality(completed) < Len(tasks)
    /\ ready_tasks(tasks, completed) = <<>>
    /\ spc' = "circular"
    /\ remaining' = remaining_names(tasks, completed)
    /\ UNCHANGED <<tasks, completed, batches, notSchedVars>>

\* line 188: the loop condition fails, return batches
ReturnBatches ==
    /\ spc = "loop"
    /\ ~ (Cardinality(completed) < Len(tasks))
    /\ spc' = "returned"
    /\ UNCHANGED <<tasks, completed, batches, remaining, notSchedVars>>

SchedNext == Validate \/ NextBatch \/ RaiseCircular \/ ReturnBatches

SpecSched == SchedInit /\ [][SchedNext]_vars

(***************************************************************************)
(* Vocabulary of the scheduler's claims                                    *)
(***************************************************************************)
\* every dependency name is the name of a task of the list
DepsResolve(ts) ==
    \A i \in DOMAIN ts : ts[i].dependencies \subseteq NamesOf(ts)

\* the dependency graph over names: n -> d when a task named n depends on d
DepEdges(ts) ==
    UNION {{<<ts[i].name, d>> : d \in ts[i].dependencies} : i \in DOMAIN ts}

RECURSIVE ReachFrom(_, _, _)
ReachFrom(E, S, k) ==
    IF k = 0 THEN S
    ELSE ReachFrom(E, S \cup {e[2] : e \in {x \in E : x[1] \in S}}, k - 1)

\* the names reachable from n in one step or more
Descendants(ts, n) ==
    LET E == DepEdges(ts)
    IN  ReachFrom(E, {e[2] : e \in {x \in E : x[1] = n}}, Cardinality(TaskNames))

OnCycle(ts, n) == n \in Descendants(ts, n)

Acyclic(ts) == \A n \in NamesOf(ts) : ~ OnCycle(ts, n)

DistinctNames(ts) == \A i, j \in DOMAIN ts : ts[i].name = ts[j].name => i = j

SchedTerminal == spc \in {"invalid", "circular", "returned"}

\* the index of the batch that holds position i (0 when none does)
BatchOf(i) ==
    IF \E b \in DOMAIN batches : i \in Range(batches[b])
    THEN CHOOSE b \in DOMAIN batches : i \in Range(batches[b])
    ELSE 0

\* every dependency of every task sits in a strictly earlier batch
TopoValid ==
    \A i \in DOMAIN tasks : \A d \in tasks[i].dependencies :
        /\ \E j \in DOMAIN tasks : tasks[j].name = d
        /\ \A j \in DOMAIN tasks :
              tasks[j].name = d => (BatchOf(j) >= 1 /\ BatchOf(j) < BatchOf(i))

Scheduled == UNION {Range(batches[b]) : b \in DOMAIN batches}

(***************************************************************************)
(* Claims on the scheduler, checked under SpecSched                        *)
(***************************************************************************)
\* C1: for every task list whose dependency names all resolve and whose
\* dependency graph is acyclic, get_execution_order returns batches, and in
\* them every dependency of every task is in a strictly earlier batch.
C1_TopologicalOrder ==
    (SchedTerminal /\ DepsResolve(tasks) /\ Acyclic(tasks))
        => (spc = "returned" /\ TopoValid)

\* what the code does give on C1's inputs: the claim holds on every list
\* whose task names are pairwise distinct, and whatever is returned is ordered
C1_OnDistinctNames ==
    /\ (SchedTerminal /\ DepsResolve(tasks) /\ Acyclic(tasks) /\ DistinctNames(tasks))
          => (spc = "returned" /\ TopoValid)
    /\ spc = "returned" => TopoValid

\* C2: for every task list whose dependency names resolve and whose graph
\* has a cycle, get_execution_order returns no batches and fails with the
\* cycle error; the names in the error are exactly the unscheduled tasks and
\* include every task on a cycle.
C2_CycleError ==
    (SchedTerminal /\ DepsResolve(tasks) /\ ~ Acyclic(tasks))
        => /\ spc = "circular"
           /\ Range(remaining) = {tasks[i].name : i \in DOMAIN tasks \ Scheduled}
           /\ \A n \in NamesOf(tasks) : OnCycle(tasks, n) => n \in Range(remaining)

\* what the code does give on C2's inputs: the claim on lists of distinct names
C2_OnDistinctNames == DistinctNames(tasks) => C2_CycleError

\* C3: a dependency name that names no task of the list makes
\* get_execution_order fail in validation, before any batch is computed,
\* whatever else the list holds (a cycle included).
C3_MissingDependencyFailsFirst ==
    ~ DepsResolve(tasks) =>
        /\ spc \in {"validate", "invalid"}
        /\ batches = <<>>
        /\ completed = {}

\* C3's case: validation has rejected a list that also holds a cycle
C3_Witness ==
    /\ spc = "invalid"
    /\ ~ DepsResolve(tasks)
    /\ ~ Acyclic(tasks)
    /\ Len(tasks) >= 2

(***************************************************************************)
(* Event records, as the emit_* helpers of EventLogger build them          *)
(* (src/src/event_logger.py, lines 48-97); emit adds the timestamp.        *)
(* A dict is a function from its keys to its values.                       *)
(***************************************************************************)
\* timestamps are ISO-8601 strings; Timestamps lists them in clock order
Timestamps == <<"T1", "T2">>

TsRank(ts) == CHOOSE k \in DOMAIN Timestamps : Timestamps[k] = ts

StartEvent(w, ts) ==
    [worker_id |-> w, type |-> "start", task |-> "task", prompt |-> "prompt",
     timestamp |-> ts]

ProgressEvent(w, pct, ts) ==
    [worker_id |-> w, type |-> "progress", percent |-> pct, message |-> "",
     timestamp |-> ts]

ArtifactEvent(w, ts) ==
    [worker_id |-> w, type |-> "artifact", path |-> "result.json", timestamp |-> ts]

DoneEvent(w, st, ts) ==
    [worker_id |-> w, type |-> "done", status |-> st, timestamp |-> ts]

ErrorEvent(w, ts) ==
    [worker_id |-> w, type |-> "error", message |-> "failed", timestamp |-> ts]

\* a line that json.loads rejects (a torn or foreign line)
GarbageLine == [not_json |-> TRUE]

\* json.loads(line) succeeds
IsJson(line) == "not_json" \notin DOMAIN line

None == "None"

\* dict.get(key) and dict.get(key, default)
Get(d, k) == IF k \in DOMAIN d THEN d[k] ELSE None
GetOr(d, k, default) == IF k \in DOMAIN d THEN d[k] ELSE default

(***************************************************************************)
(* plan.json                                                               *)
(***************************************************************************)
PlanIds == <<"w1", "w2", "w3">>

IdSet == Range(PlanIds)

\* plans of three tasks w1, w2, w3, each depending on any of the others
GatePlans ==
    {p \in [1..3 -> [id : IdSet, dependencies : SUBSET IdSet]] :
        \A i \in 1..3 : p[i].id = PlanIds[i] /\ p[i].id \notin p[i].dependencies}

PlanTaskIds(p) == {p[i].id : i \in DOMAIN p}

(***************************************************************************)
(* DependencyChecker (src/src/hooks/dependency_checker.py)                 *)
(***************************************************************************)
get_completed_tasks_AnyDone(lines) ==
    {Get(lines[i], "worker_id") : i \in
        {j \in DOMAIN lines : IsJson(lines[j]) /\ Get(lines[j], "type") = "done"}}

get_completed_tasks(lines) ==
    {Get(lines[i], "worker_id") : i \in
        {j \in DOMAIN lines :
            /\ IsJson(lines[j])
            /\ Get(lines[j], "type") = "done"
            /\ Get(lines[j], "status") = "success"}}

get_started_tasks(lines) ==
    {Get(lines[i], "worker_id") : i \in
        {j \in DOMAIN lines : IsJson(lines[j]) /\ Get(lines[j], "type") = "start"}}

\* _find_task finds a task with that id
has_task(p, task_id) == \E i \in DOMAIN p : p[i].id = task_id

\* _find_task: the first task of the plan with that id
find_task(p, task_id) ==
    p[CHOOSE i \in DOMAIN p :
          p[i].id = task_id /\ \A j \in 1..(i - 1) : p[j].id # task_id]

check_task_dependencies(task, done) ==
    \A dep \in task.dependencies : dep \in done

\* check_dependencies with a task_id: a task the plan lacks is allowed
check_dependencies(lines, p, task_id) ==
    LET done == get_completed_tasks(lines)
    IN  IF ~ has_task(p, task_id) THEN TRUE
        ELSE check_task_dependencies(find_task(p, task_id), done)

get_blocking_dependencies_NotStarted(lines, p, task_id) ==
    IF ~ has_task(p, task_id) THEN {}
    ELSE {dep \in find_task(p, task_id).dependencies :
              dep \notin get_started_tasks(lines)}

\* get_blocking_dependencies: the dependencies not in the completed set
get_blocking_dependencies(lines, p, task_id) ==
    IF ~ has_task(p, task_id) THEN {}
    ELSE {dep \in find_task(p, task_id).dependencies :
              dep \notin get_completed_tasks(lines)}

get_ready_tasks_NoDependencies(lines, p) ==
    LET done == get_completed_tasks(lines)
        started == get_started_tasks(lines)
        Keep(i) == /\ ~ (p[i].id \in started \/ p[i].id \in done)
                   /\ p[i].dependencies = {}
        idx == SelectSeq(Positions(Len(p)), Keep)
    IN  [k \in DOMAIN idx |-> p[idx[k]].id]

\* get_ready_tasks: the ready ids, in plan order
get_ready_tasks(lines, p) ==
    LET done == get_completed_tasks(lines)
        started == get_started_tasks(lines)
        Keep(i) == /\ ~ (p[i].id \in started \/ p[i].id \in done)
                   /\ check_task_dependencies(p[i], done)
        idx == SelectSeq(Positions(Len(p)), Keep)
    IN  [k \in DOMAIN idx |-> p[idx[k]].id]

(***************************************************************************)
(* SpecGate: a plan and a log that grows by one line at a time             *)
(***************************************************************************)
MaxGateLog == 2

GateEvents ==
    UNION {{StartEvent(w, "T1"), ProgressEvent(w, 50, "T1"),
            DoneEvent(w, "success", "T1"), DoneEvent(w, "failed", "T1"),
            ErrorEvent(w, "T1")} : w \in IdSet}
      \cup {GarbageLine}

GateInit ==
    /\ plan \in GatePlans
    /\ log = <<>>
    /\ SchedIdle
    /\ ExecIdle
    /\ LogIdle
    /\ LoadIdle
    /\ ReadIdle

\* a producer appends one line to events.jsonl
GateAppend ==
    /\ Len(log) < MaxGateLog
    /\ \E e \in GateEvents : log' = Append(log, e)
    /\ UNCHANGED <<plan, notHookVars>>

GateNext == GateAppend

SpecGate == GateInit /\ [][GateNext]_vars

(***************************************************************************)
(* Claims on the readiness gate, checked under SpecGate                    *)
(***************************************************************************)
\* the log holds a record of that type for that id
HasEvent(w, ty) ==
    \E i \in DOMAIN log :
        IsJson(log[i]) /\ Get(log[i], "worker_id") = w /\ Get(log[i], "type") = ty

HasDoneSuccess(w) ==
    \E i \in DOMAIN log :
        /\ IsJson(log[i])
        /\ Get(log[i], "worker_id") = w
        /\ Get(log[i], "type") = "done"
        /\ Get(log[i], "status") = "success"

HasDoneFailure(w) ==
    \E i \in DOMAIN log :
        /\ IsJson(log[i])
        /\ Get(log[i], "worker_id") = w
        /\ Get(log[i], "type") = "done"
        /\ Get(log[i], "status") # "success"

ReadySet == Range(get_ready_tasks(log, plan))

\* C5: get_ready_tasks returns exactly the ids with no start event, no done
\* event of any status, and a done(success) event for every dependency.
C5_ReadyTasksExact ==
    ReadySet = {plan[i].id : i \in
        {j \in DOMAIN plan :
            /\ ~ HasEvent(plan[j].id, "start")
            /\ ~ HasEvent(plan[j].id, "done")
            /\ \A d \in plan[j].dependencies : HasDoneSuccess(d)}}

\* what the code does return: a done event of another status than success
\* does not take a task out of the ready list
C5_AsCoded ==
    ReadySet = {plan[i].id : i \in
        {j \in DOMAIN plan :
            /\ ~ HasEvent(plan[j].id, "start")
            /\ ~ HasDoneSuccess(plan[j].id)
            /\ \A d \in plan[j].dependencies : HasDoneSuccess(d)}}

\* C6: while a dependency d of task t has reported only failure (done with a
\* status other than success, or error) and no done(success), t is not ready
\* and check_dependencies(t) is false.
C6_StrictSuccessGate ==
    \A i \in DOMAIN plan : \A d \in plan[i].dependencies :
        ((HasDoneFailure(d) \/ HasEvent(d, "error")) /\ ~ HasDoneSuccess(d))
            => /\ plan[i].id \notin ReadySet
               /\ ~ check_dependencies(log, plan, plan[i].id)

\* C6's case: w3 waits for w1 and w2; w2 succeeded, w1 reported done(failed)
C6_Witness ==
    /\ plan[3].dependencies = {"w1", "w2"}
    /\ HasDoneFailure("w1") /\ ~ HasDoneSuccess("w1")
    /\ HasDoneSuccess("w2")
    /\ "w3" \notin ReadySet
    /\ ~ check_dependencies(log, plan, "w3")

\* C24: for every task id of the plan, get_blocking_dependencies returns
\* exactly the declared dependencies of that task that have no
\* done(success) event in the log, and it returns none if and only if
\* check_dependencies for that task returns true.
C24_BlockingExact ==
    \A i \in DOMAIN plan :
        LET blocking == get_blocking_dependencies(log, plan, plan[i].id)
        IN  /\ blocking = {d \in plan[i].dependencies : ~ HasDoneSuccess(d)}
            /\ (blocking = {}) <=> check_dependencies(log, plan, plan[i].id)

\* C24's case: of the two dependencies of w3 one reported success and the
\* other was started and failed; the second alone is blocking
C24_Witness ==
    /\ plan[3].dependencies = {"w1", "w2"}
    /\ HasDoneSuccess("w1")
    /\ HasEvent("w2", "error")
    /\ get_blocking_dependencies(log, plan, "w3") = {"w2"}

(***************************************************************************)
(* StatusFormatter (src/src/hooks/status_formatter.py)                     *)
(***************************************************************************)
\* _load_events: the lines that parse, in file order
load_events(lines) == SelectSeq(lines, IsJson)

format_running(percent) == "(hourglass) " \o ToString(percent) \o "%"
format_done == "(check) done"
format_error == "(cross) error"
format_waiting == "(pause) waiting"

\* _build_status_map: one pass over the events, a later event of a worker
\* overwriting the entry of an earlier one; other types leave the map alone
RECURSIVE build_status_map(_)
build_status_map(events) ==
    IF events = <<>> THEN [w \in {} |-> ""]
    ELSE LET before == build_status_map(SubSeq(events, 1, Len(events) - 1))
             event == events[Len(events)]
             worker_id == Get(event, "worker_id")
             event_type == Get(event, "type")
             Put(v) == [w \in DOMAIN before \cup {worker_id} |->
                           IF w = worker_id THEN v ELSE before[w]]
         IN  CASE event_type = "start" -> Put(format_running(0))
               [] event_type = "progress" ->
                      Put(format_running(GetOr(event, "percent", 0)))
               [] event_type = "done" -> Put(format_done)
               [] event_type = "error" -> Put(format_error)
               [] OTHER -> before

\* get_latest_status: the parts "<id> <status>", which the code joins by " | "
get_latest_status(lines, p) ==
    LET status_map == build_status_map(load_events(lines))
    IN  [i \in DOMAIN p |->
            p[i].id \o " " \o GetOr(status_map, p[i].id, format_waiting)]

latest_of_ByTimestamp(task_events) ==
    task_events[CHOOSE i \in DOMAIN task_events :
        \A j \in DOMAIN task_events :
            \/ TsRank(task_events[j].timestamp) < TsRank(task_events[i].timestamp)
            \/ (TsRank(task_events[j].timestamp) = TsRank(task_events[i].timestamp)
                    /\ j <= i)]

\* latest = task_events[-1]
latest_of(task_events) == task_events[Len(task_events)]

\* the entry get_detailed_status builds for one task id
status_detail(events, task_id) ==
    LET ForTask(e) == Get(e, "worker_id") = task_id
        task_events == SelectSeq(events, ForTask)
    IN  IF task_events = <<>>
        THEN [status |-> "waiting", progress |-> 0, message |-> "Not started"]
        ELSE LET latest == latest_of(task_events)
                 event_type == Get(latest, "type")
             IN  CASE event_type = "done" ->
                        [status |-> "done", progress |-> 100,
                         message |-> "Completed successfully"]
                   [] event_type = "error" ->
                        [status |-> "error", progress |-> 0,
                         message |-> GetOr(latest, "message", "Error occurred")]
                   [] event_type = "progress" ->
                        [status |-> "running",
                         progress |-> GetOr(latest, "percent", 0),
                         message |-> GetOr(latest, "message", "In progress")]
                   [] event_type = "start" ->
                        [status |-> "running", progress |-> 0, message |-> "Started"]
                   [] OTHER ->
                        [status |-> "unknown", progress |-> 0,
                         message |-> "Unknown status"]

\* get_detailed_status: the "workers" dictionary
get_detailed_status(lines, p) ==
    LET events == load_events(lines)
    IN  [task_id \in PlanTaskIds(p) |-> status_detail(events, task_id)]

(***************************************************************************)
(* SpecStatus: a plan and a log whose records carry any timestamps         *)
(***************************************************************************)
MaxStatusLog == 3

StatusPlan ==
    <<[id |-> "w1", dependencies |-> {}], [id |-> "w2", dependencies |-> {}]>>

StatusEvents ==
    UNION {{StartEvent(w, ts), ProgressEvent(w, 50, ts), ArtifactEvent(w, ts),
            DoneEvent(w, "success", ts), ErrorEvent(w, ts)} :
                w \in PlanTaskIds(StatusPlan), ts \in Range(Timestamps)}
      \cup {GarbageLine}

StatusInit ==
    /\ plan = StatusPlan
    /\ log = <<>>
    /\ SchedIdle
    /\ ExecIdle
    /\ LogIdle
    /\ LoadIdle
    /\ ReadIdle

\* a producer appends one line; its timestamp need not follow the log's
StatusAppend ==
    /\ Len(log) < MaxStatusLog
    /\ \E e \in StatusEvents : log' = Append(log, e)
    /\ UNCHANGED <<plan, notHookVars>>

StatusNext == StatusAppend

SpecStatus == StatusInit /\ [][StatusNext]_vars

(***************************************************************************)
(* Claims on the status projection, checked under SpecStatus               *)
(***************************************************************************)
\* the records of one id, in log order
RecordsOf(w) ==
    LET Mine(l) == IsJson(l) /\ Get(l, "worker_id") = w
    IN  SelectSeq(log, Mine)

LastRecordOf(w) == RecordsOf(w)[Len(RecordsOf(w))]

\* the part of get_latest_status for position i of the plan
LatestPart(i) == get_latest_status(log, plan)[i]

\* C7: the projected state of every task id of the plan is decided by the
\* last record of that id in log order, whatever the timestamps: none gives
\* waiting, start or progress gives running (with the percent, 0 for start),
\* done gives done, error gives error.
C7_LastRecordDecides ==
    \A i \in DOMAIN plan :
        LET w == plan[i].id
            detail == get_detailed_status(log, plan)[w]
        IN  IF RecordsOf(w) = <<>>
            THEN /\ detail.status = "waiting"
                 /\ LatestPart(i) = w \o " " \o format_waiting
            ELSE LET last == LastRecordOf(w)
                 IN  /\ last.type = "start" =>
                            /\ detail.status = "running" /\ detail.progress = 0
                            /\ LatestPart(i) = w \o " " \o format_running(0)
                     /\ last.type = "progress" =>
                            /\ detail.status = "running"
                            /\ detail.progress = last.percent
                            /\ LatestPart(i) = w \o " " \o format_running(last.percent)
                     /\ last.type = "done" =>
                            /\ detail.status = "done"
                            /\ LatestPart(i) = w \o " " \o format_done
                     /\ last.type = "error" =>
                            /\ detail.status = "error"
                            /\ LatestPart(i) = w \o " " \o format_error

\* C7's case: [start, progress(50), done(success)] of w1, the done record
\* carrying an earlier timestamp than the progress record; the state is done
C7_Witness ==
    /\ Len(RecordsOf("w1")) = 3
    /\ RecordsOf("w1")[1].type = "start"
    /\ RecordsOf("w1")[2].type = "progress"
    /\ RecordsOf("w1")[3].type = "done"
    /\ TsRank(RecordsOf("w1")[3].timestamp) < TsRank(RecordsOf("w1")[2].timestamp)
    /\ get_detailed_status(log, plan)["w1"].status = "done"
    /\ LatestPart(1) = "w1 " \o format_done

\* the compact part that shows the state of an entry of get_detailed_status;
\* there is no glyph for a status other than the four
PartShowing(w, detail) ==
    w \o " " \o
        (CASE detail.status = "waiting" -> format_waiting
           [] detail.status = "running" -> format_running(detail.progress)
           [] detail.status = "done" -> format_done
           [] detail.status = "error" -> format_error
           [] OTHER -> "")

\* C35: the two output forms agree: for every log and every task id of the
\* plan, the state shown by get_latest_status is the state, with the same
\* percent, that get_detailed_status reports, also when the last record of
\* the task is an artifact event.
C35_FormsAgree ==
    \A i \in DOMAIN plan :
        LatestPart(i) = PartShowing(plan[i].id, get_detailed_status(log, plan)[plan[i].id])

\* what the code does give: the two forms agree on every task without a
\* record and on every task whose last record is a start, progress, done or
\* error event
C35_AgreeOnStateRecords ==
    \A i \in DOMAIN plan :
        (\/ RecordsOf(plan[i].id) = <<>>
         \/ LastRecordOf(plan[i].id).type \in {"start", "progress", "done", "error"})
            => LatestPart(i) =
                   PartShowing(plan[i].id, get_detailed_status(log, plan)[plan[i].id])

(***************************************************************************)
(* Self-dependency, checked under SpecSched                                *)
(***************************************************************************)
\* a task of the list names itself among its dependencies
SelfDependent(ts) == \E i \in DOMAIN ts : ts[i].name \in ts[i].dependencies

\* C16: a task that lists its own id among its dependencies is always
\* invalid: get_execution_order returns no batches for a list that holds
\* one, and it is rejected by a check made during validation, before any
\* batching: the function never gets past validation.
C16_SelfDependencyRejectedInValidation ==
    SelfDependent(tasks) => (spc \in {"validate", "invalid"} /\ batches = <<>>)

\* what the code does keep: for a list with a self-dependent task
\* get_execution_order never returns
C16_NeverReturns == SelfDependent(tasks) => spc # "returned"

(***************************************************************************)
(* The shape of the batches of get_execution_order (SpecSched)             *)
(***************************************************************************)
\* the names of the tasks in the batches before batch b
DoneBefore(b) ==
    {tasks[i].name : i \in UNION {Range(batches[c]) : c \in 1..(b - 1)}}

\* at most one step of get_execution_order is possible in any state
OneStepAtMost ==
    /\ ~ (ENABLED NextBatch /\ ENABLED RaiseCircular)
    /\ ~ (ENABLED NextBatch /\ ENABLED ReturnBatches)
    /\ ~ (ENABLED RaiseCircular /\ ENABLED ReturnBatches)
    /\ ENABLED Validate => ~ (ENABLED NextBatch \/ ENABLED RaiseCircular \/ ENABLED ReturnBatches)

\* C29: within each batch of get_execution_order the tasks stand in the
\* order of the input list, and the batches are a function of the input
\* list only: batch b holds, in input order, the tasks that the list and
\* the batches before b make ready, and no state allows two different
\* steps.
C29_InputOrderDeterministic ==
    /\ \A b \in DOMAIN batches :
           /\ \A k \in 1..(Len(batches[b]) - 1) : batches[b][k] < batches[b][k + 1]
           /\ Range(batches[b]) =
                  {i \in DOMAIN tasks :
                      /\ tasks[i].name \notin DoneBefore(b)
                      /\ tasks[i].dependencies \subseteq DoneBefore(b)}
    /\ completed = DoneBefore(Len(batches) + 1)
    /\ OneStepAtMost

\* C29's case: the returned first batch holds the first and the third task
\* of the list, in this order; the second task, which stands between them,
\* is in the second batch
C29_Witness ==
    /\ spc = "returned"
    /\ batches = <<(<<1, 3>>), (<<2>>)>>

MaxOf(S) == CHOOSE m \in S : \A x \in S : x <= m

\* C30: in the batches that get_execution_order returns every task is in
\* the first batch it is eligible for: a task without dependencies in batch
\* 1, any other in the batch right after the latest batch that holds one of
\* its dependencies.
C30_EarliestBatch ==
    spc = "returned" =>
        \A i \in DOMAIN tasks :
            BatchOf(i) =
                IF tasks[i].dependencies = {} THEN 1
                ELSE 1 + MaxOf({BatchOf(j) : j \in
                         {k \in DOMAIN tasks : tasks[k].name \in tasks[i].dependencies}})

\* C30's case: the third task depends on the first, which is in batch 1, and
\* on the second, which is in batch 2; it is in batch 3
C30_Witness ==
    /\ spc = "returned"
    /\ Len(tasks) = 3
    /\ tasks[3].dependencies = {tasks[1].name, tasks[2].name}
    /\ BatchOf(1) = 1
    /\ BatchOf(2) = 2
    /\ BatchOf(3) = 3

\* the number of tasks over all batches
RECURSIVE TotalInBatches(_)
TotalInBatches(bs) ==
    IF bs = <<>> THEN 0 ELSE Len(Head(bs)) + TotalInBatches(Tail(bs))

\* C36: whenever get_execution_order returns batches, the batches partition
\* the input: every input task is in exactly one batch, no batch is empty,
\* and the number of tasks over all batches is the length of the input list.
C36_BatchesPartition ==
    spc = "returned" =>
        /\ \A i \in DOMAIN tasks :
               Cardinality({b \in DOMAIN batches : i \in Range(batches[b])}) = 1
        /\ \A b \in DOMAIN batches : batches[b] # <<>>
        /\ TotalInBatches(batches) = Len(tasks)

\* C36's case: three tasks returned in two batches, the second batch holding
\* the two tasks that depend on the first
C36_Witness ==
    /\ spc = "returned"
    /\ Len(tasks) = 3
    /\ batches = <<(<<1>>), (<<2, 3>>)>>

(***************************************************************************)
(* Loading the task file: TaskParser.load_from_file and parse_tasks, as     *)
(* ZoWorkerSwarm.run calls them before get_execution_order                  *)
(***************************************************************************)
MaxEntries == 2

\* a key of a YAML entry that may be absent: no key, or the key with a value
OptField(k, vals) == {<<>>} \cup {k :> v : v \in vals}

\* the entries of the list `tasks`; "" is an empty value
TaskDicts ==
    {n @@ c @@ m @@ q @@ d :
        n \in OptField("name", {"", "A"}),
        c \in OptField("ccr_instance", {"", "fast"}),
        m \in OptField("command", {"cmd"}),
        q \in OptField("prompt", {"p"}),
        d \in OptField("dependencies", {{"A"}})}

\* what load_from_file may find at the path
TaskFiles ==
    {[state |-> st, tasks |-> <<>>] :
        st \in {"missing", "invalid_yaml", "no_tasks_key", "tasks_not_list"}}
    \cup {[state |-> "ok", tasks |-> td] :
            td \in UNION {[1..n -> TaskDicts] : n \in 0..MaxEntries}}

\* lines 97-107: the TaskDefinition of the i-th entry (i counted from 0)
task_of(task_dict, i) ==
    [name |-> GetOr(task_dict, "name", "Task-" \o ToString(i + 1)),
     ccr_instance |-> GetOr(task_dict, "ccr_instance", "general"),
     command |-> GetOr(task_dict, "command", ""),
     prompt |-> GetOr(task_dict, "prompt", ""),
     dependencies |-> GetOr(task_dict, "dependencies", {})]

\* TaskDefinition.__post_init__ raises ValueError unless this holds
post_init_ok(t) ==
    /\ t.name # ""
    /\ t.ccr_instance # ""
    /\ ~ (t.command = "" /\ t.prompt = "")

\* parse_tasks: an entry whose TaskDefinition raises is printed and passed
\* over (except Exception ... continue), the others are appended in order
parse_tasks(tasks_data) ==
    LET Kept(i) == post_init_ok(task_of(tasks_data[i], i - 1))
        kept == SelectSeq(Positions(Len(tasks_data)), Kept)
    IN  [k \in DOMAIN kept |-> task_of(tasks_data[kept[k]], kept[k] - 1)]

LoadInit ==
    /\ task_file \in TaskFiles
    /\ lpc = "load"
    /\ SchedIdle
    /\ HooksIdle
    /\ ExecIdle
    /\ LogIdle
    /\ ReadIdle

\* orchestrator.py line 72 and load_from_file lines 56-74: a missing file,
\* a document that is no YAML or has no list under `tasks` raises; else the
\* result of parse_tasks goes to get_execution_order
LoadFromFile ==
    /\ lpc = "load"
    /\ IF task_file.state = "ok"
       THEN /\ tasks' = parse_tasks(task_file.tasks)
            /\ spc' = "validate"
            /\ lpc' = "loaded"
       ELSE /\ lpc' = "raised"
            /\ UNCHANGED <<tasks, spc>>
    /\ UNCHANGED <<task_file, completed, batches, remaining,
                   hookVars, execVars, logVars, readVars>>

LoadNext ==
    \/ LoadFromFile
    \/ Validate
    \/ NextBatch
    \/ RaiseCircular
    \/ ReturnBatches

SpecLoad == LoadInit /\ [][LoadNext]_vars

(***************************************************************************)
(* Claims on loading, checked under SpecLoad                               *)
(***************************************************************************)
\* a task definition without a name, without a target label, or with
\* neither command nor prompt
Malformed(task_dict) ==
    \/ GetOr(task_dict, "name", "") = ""
    \/ GetOr(task_dict, "ccr_instance", "") = ""
    \/ (GetOr(task_dict, "command", "") = "" /\ GetOr(task_dict, "prompt", "") = "")

HasMalformed ==
    task_file.state = "ok" /\ \E i \in DOMAIN task_file.tasks : Malformed(task_file.tasks[i])

\* C15: a malformed task definition is fatal at load time: loading a file
\* that holds one never returns a task list, and nothing is scheduled.
C15_MalformedIsFatal == HasMalformed => (lpc \in {"load", "raised"} /\ spc = "off")

\* what the code does keep: every task that loading returns has a name, a
\* target label and a command or a prompt
C15_LoadedAreWellFormed ==
    lpc = "loaded" =>
        \A i \in DOMAIN tasks :
            /\ tasks[i].name # ""
            /\ tasks[i].ccr_instance # ""
            /\ (tasks[i].command # "" \/ tasks[i].prompt # "")

\* C27: task ids are unique within a loaded plan: the list that loading
\* returns, and that get_execution_order receives, never holds two tasks
\* with the same name.
C27_UniqueNames == lpc = "loaded" => DistinctNames(tasks)

\* entries without a name get "Task-<n>" by their position: among the
\* files of TaskFiles, duplicates come only from names the file repeats
C27_DuplicatesAreInTheFile ==
    (lpc = "loaded" /\ ~ DistinctNames(tasks)) =>
        \E i, j \in DOMAIN task_file.tasks :
            /\ i # j
            /\ "name" \in DOMAIN task_file.tasks[i]
            /\ "name" \in DOMAIN task_file.tasks[j]
            /\ task_file.tasks[i].name = task_file.tasks[j].name

(***************************************************************************)
(* The batch executors.                                                    *)
(*   ssh:   ZoWorkerSwarm.run (src/src/orchestrator.py) computes the       *)
(*          batches with TaskParser.get_execution_order and hands them to  *)
(*          SSHExecutor.execute_all_batches (src/src/ssh_executor.py)      *)
(*   agent: OrchestratorAgent.run (src/src/orchestrator_agent.py)          *)
(* Both run their coroutines on one asyncio event loop: a coroutine runs   *)
(* without interruption from one await to the next.                        *)
(***************************************************************************)
ExecNames == <<"A", "B", "C">>

\* task files of three tasks A, B, C with any dependencies on each other
ExecTaskLists ==
    {ts \in [1..3 -> TaskDefinition] :
        \A i \in 1..3 : ts[i].name = ExecNames[i] /\ ts[i].name \notin ts[i].dependencies}

\* parse_tasks only warns about an unknown instance name
Instances == {"fast", "custom"}

\* the mapping ZoWorkerSwarm.run builds from the configured instances
ccr_ports == [fast |-> 3457]

\* task dictionaries of plan.json; spawn_worker reads id, name and prompt
PlanTask(i, deps, complete) ==
    IF complete
    THEN [id |-> PlanIds[i], name |-> "task", prompt |-> "prompt", dependencies |-> deps]
    ELSE [id |-> PlanIds[i], prompt |-> "prompt", dependencies |-> deps]

AgentPlans ==
    {[i \in 1..3 |-> PlanTask(i, d[i], c[i])] :
        d \in {f \in [1..3 -> SUBSET IdSet] : \A i \in 1..3 : PlanIds[i] \notin f[i]},
        c \in [1..3 -> BOOLEAN]}

\* OrchestratorAgent.organize_tasks_into_batches, batches of plan positions
organize_tasks_into_batches(p) ==
    LET Dependent(i) == p[i].dependencies # {}
        Independent(i) == ~ Dependent(i)
        independent_tasks == SelectSeq(Positions(Len(p)), Independent)
        dependent_tasks == SelectSeq(Positions(Len(p)), Dependent)
    IN  (IF independent_tasks # <<>> THEN <<independent_tasks>> ELSE <<>>)
            \o [k \in DOMAIN dependent_tasks |-> <<dependent_tasks[k]>>]

\* a unit of work that was launched and has not come to its outcome
Running == {"spawning", "communicating", "killing",
            "sleep1", "sleep2", "sleep3", "sleep4"}

\* a unit of work before create_subprocess_shell: no process, no timer
NoProcess == [process |-> "none", returncode |-> <<>>, timer |-> "off"]

\* process.kill(): SIGKILL ends a live process, an exited one is left alone
kill(u) ==
    IF u.process = "alive"
    THEN [u EXCEPT !.process = "killed", !.returncode = <<-9>>]
    ELSE u

task_status_AlwaysSuccess(returncode) == "success"

\* line 91: status = "success" if process.returncode == 0 else "failed"
task_status(returncode) == IF returncode = 0 THEN "success" ELSE "failed"

\* the percent _execute_worker reports after its n-th sleep, and what follows
PercentAfter == [sleep1 |-> 25, sleep2 |-> 50, sleep3 |-> 75, sleep4 |-> 100]
SleepAfter == [sleep1 |-> "sleep2", sleep2 |-> "sleep3", sleep3 |-> "sleep4"]

batch_done_Any(b) == \E i \in Range(xbatches[b]) : wst[i] \notin Running

\* await asyncio.gather(...) returns: every awaitable it was given is done
batch_done(b) == \A i \in Range(xbatches[b]) : wst[i] \notin Running

ExecInit ==
    \/ /\ kind = "ssh"
       /\ tasks \in ExecTaskLists
       /\ spc = "validate"
       /\ completed = {}
       /\ batches = <<>>
       /\ remaining = <<>>
       /\ HooksIdle
       /\ ccr_instance \in [1..3 -> Instances]
       /\ xpc = "start"
       /\ xbatches = <<>>
       /\ cur = 0
       /\ wst = [i \in 1..3 |-> "idle"]
       /\ unit = [i \in 1..3 |-> NoProcess]
       /\ all_results = <<>>
       /\ LogIdle
       /\ LoadIdle
       /\ ReadIdle
    \/ /\ kind = "agent"
       /\ SchedIdle
       /\ plan \in AgentPlans \cup {<<>>}
       /\ log = <<>>
       /\ ccr_instance = <<>>
       /\ xpc = "start"
       /\ xbatches = <<>>
       /\ cur = 0
       /\ wst = [i \in 1..3 |-> "idle"]
       /\ unit = [i \in 1..3 |-> NoProcess]
       /\ all_results = <<>>
       /\ LogIdle
       /\ LoadIdle
       /\ ReadIdle

\* ---- ssh ---------------------------------------------------------------
\* orchestrator.py lines 77-88: the batches go to execute_all_batches
SshStart ==
    /\ kind = "ssh" /\ xpc = "start" /\ spc = "returned"
    /\ xbatches' = batches
    /\ cur' = 1
    /\ xpc' = "loop"
    /\ UNCHANGED <<kind, unit, ccr_instance, wst, all_results, schedVars, hookVars, logVars, loadVars, readVars>>

\* orchestrator.py lines 118-120: get_execution_order raised, nothing runs
SshAbort ==
    /\ kind = "ssh" /\ xpc = "start" /\ spc \in {"invalid", "circular"}
    /\ xpc' = "raised"
    /\ UNCHANGED <<kind, unit, ccr_instance, xbatches, cur, wst, all_results,
                   schedVars, hookVars, logVars, loadVars, readVars>>

\* execute_batch lines 182-192: a task whose instance has no port is passed
\* over, the others are handed to gather
SshLaunchBatch ==
    /\ kind = "ssh" /\ xpc = "loop" /\ cur <= Len(xbatches)
    /\ wst' = [i \in DOMAIN wst |->
                 IF i \in Range(xbatches[cur])
                 THEN IF ccr_instance[i] \in DOMAIN ccr_ports THEN "spawning"
                      ELSE "skipped"
                 ELSE wst[i]]
    /\ xpc' = "gather"
    /\ UNCHANGED <<kind, unit, ccr_instance, xbatches, cur, all_results, schedVars, hookVars, logVars, loadVars, readVars>>

\* execute_task lines 74-80 and 100-103: create_subprocess_shell gives the
\* process, or raises (OSError) and the outer handler records failed
SshSpawn(i) ==
    /\ kind = "ssh" /\ wst[i] = "spawning"
    /\ \/ /\ wst' = [wst EXCEPT ![i] = "communicating"]
          /\ unit' = [unit EXCEPT ![i] = [process |-> "alive", returncode |-> <<>>,
                                          timer |-> "armed"]]
       \/ /\ wst' = [wst EXCEPT ![i] = "failed"]
          /\ UNCHANGED unit
    /\ UNCHANGED <<kind, ccr_instance, xpc, xbatches, cur, all_results,
                   schedVars, hookVars, logVars, loadVars, readVars>>

\* the remote command ends by itself with an exit status
SshProcessExit(i) ==
    /\ kind = "ssh" /\ wst[i] = "communicating" /\ unit[i].process = "alive"
    /\ \E rc \in {0, 1} :
           unit' = [unit EXCEPT ![i].process = "exited", ![i].returncode = <<rc>>]
    /\ UNCHANGED <<kind, ccr_instance, xpc, xbatches, cur, wst, all_results,
                   schedVars, hookVars, logVars, loadVars, readVars>>

\* lines 84-91: communicate() returns before the timer fires; decoding the
\* output may raise (UnicodeDecodeError), which the outer handler records
SshCommunicateDone(i) ==
    /\ kind = "ssh" /\ wst[i] = "communicating"
    /\ unit[i].process = "exited" /\ unit[i].timer = "armed"
    /\ unit' = [unit EXCEPT ![i].timer = "cancelled"]
    /\ \E decodes \in BOOLEAN :
           wst' = [wst EXCEPT ![i] = IF decodes THEN task_status(unit[i].returncode[1])
                                     ELSE "failed"]
    /\ UNCHANGED <<kind, ccr_instance, xpc, xbatches, cur, all_results,
                   schedVars, hookVars, logVars, loadVars, readVars>>

\* lines 93-95: the timer of wait_for fires first, communicate() is
\* cancelled, process.kill() is called and process.wait() awaited; kill
\* leaves a process that has already exited as it is
SshTimeout(i) ==
    /\ kind = "ssh" /\ wst[i] = "communicating" /\ unit[i].timer = "armed"
    /\ unit' = [unit EXCEPT ![i] = kill([unit[i] EXCEPT !.timer = "expired"])]
    /\ wst' = [wst EXCEPT ![i] = "killing"]
    /\ UNCHANGED <<kind, ccr_instance, xpc, xbatches, cur, all_results,
                   schedVars, hookVars, logVars, loadVars, readVars>>

SshReaped_Propagates(i) ==
    /\ kind = "ssh" /\ wst[i] = "killing"
    /\ wst' = [wst EXCEPT ![i] = "timeout"]
    /\ xpc' = "raised"
    /\ UNCHANGED <<kind, unit, ccr_instance, xbatches, cur, all_results,
                   schedVars, hookVars, logVars, loadVars, readVars>>

\* lines 95-98: process.wait() returns, the status is timeout
SshReaped(i) ==
    /\ kind = "ssh" /\ wst[i] = "killing"
    /\ wst' = [wst EXCEPT ![i] = "timeout"]
    /\ UNCHANGED <<kind, unit, ccr_instance, xpc, xbatches, cur, all_results,
                   schedVars, hookVars, logVars, loadVars, readVars>>

\* execute_batch line 192 and execute_all_batches lines 220-221
SshBatchJoin ==
    /\ kind = "ssh" /\ xpc = "gather"
    /\ batch_done(cur)
    /\ LET Launched(i) == wst[i] # "skipped"
           ran == SelectSeq(xbatches[cur], Launched)
       IN  all_results' = all_results \o
               [k \in DOMAIN ran |->
                   [task_name |-> tasks[ran[k]].name, status |-> wst[ran[k]]]]
    /\ cur' = cur + 1
    /\ xpc' = "loop"
    /\ UNCHANGED <<kind, unit, ccr_instance, xbatches, wst, schedVars, hookVars, logVars, loadVars, readVars>>

\* execute_all_batches line 229
SshReturn ==
    /\ kind = "ssh" /\ xpc = "loop" /\ cur > Len(xbatches)
    /\ xpc' = "returned"
    /\ UNCHANGED <<kind, unit, ccr_instance, xbatches, cur, wst, all_results,
                   schedVars, hookVars, logVars, loadVars, readVars>>

\* ---- agent -------------------------------------------------------------
\* run lines 222-235
AgentStart ==
    /\ kind = "agent" /\ xpc = "start"
    /\ xbatches' = organize_tasks_into_batches(plan)
    /\ cur' = 1
    /\ xpc' = "loop"
    /\ UNCHANGED <<kind, unit, ccr_instance, wst, all_results, schedVars, hookVars, logVars, loadVars, readVars>>

AgentLaunchBatch_Gated ==
    /\ kind = "agent" /\ xpc = "loop" /\ cur <= Len(xbatches)
    /\ LET batch == xbatches[cur]
           Ready(i) == check_dependencies(log, plan, plan[i].id)
           Complete(i) == {"id", "name", "prompt"} \subseteq DOMAIN plan[i]
           Spawned(i) == Ready(i) /\ Complete(i)
           spawned == SelectSeq(batch, Spawned)
       IN  /\ log' = log \o [k \in DOMAIN spawned |-> StartEvent(plan[spawned[k]].id, "T1")]
           /\ wst' = [i \in DOMAIN wst |->
                        IF i \in Range(batch) /\ Ready(i)
                        THEN IF Complete(i) THEN "sleep1" ELSE "raised"
                        ELSE wst[i]]
    /\ xpc' = "gather"
    /\ UNCHANGED <<kind, unit, ccr_instance, xbatches, cur, all_results, plan, schedVars, logVars, loadVars, readVars>>

\* execute_batch lines 158-160 and spawn_worker lines 66-80 up to the first
\* await: in batch order, each worker reads its task dictionary (KeyError
\* when name is missing), emits start and goes to sleep
AgentLaunchBatch ==
    /\ kind = "agent" /\ xpc = "loop" /\ cur <= Len(xbatches)
    /\ LET batch == xbatches[cur]
           Complete(i) == {"id", "name", "prompt"} \subseteq DOMAIN plan[i]
           spawned == SelectSeq(batch, Complete)
       IN  /\ log' = log \o [k \in DOMAIN spawned |-> StartEvent(plan[spawned[k]].id, "T1")]
           /\ wst' = [i \in DOMAIN wst |->
                        IF i \in Range(batch)
                        THEN IF Complete(i) THEN "sleep1" ELSE "raised"
                        ELSE wst[i]]
    /\ xpc' = "gather"
    /\ UNCHANGED <<kind, unit, ccr_instance, xbatches, cur, all_results, plan, schedVars, logVars, loadVars, readVars>>

\* _execute_worker lines 121-123: a sleep ends, the next progress is emitted
AgentProgress(i) ==
    /\ kind = "agent" /\ wst[i] \in DOMAIN SleepAfter
    /\ log' = Append(log, ProgressEvent(plan[i].id, PercentAfter[wst[i]], "T1"))
    /\ wst' = [wst EXCEPT ![i] = SleepAfter[wst[i]]]
    /\ UNCHANGED <<kind, unit, ccr_instance, xpc, xbatches, cur, all_results, plan, schedVars, logVars, loadVars, readVars>>

\* lines 123-143 and 83-91 after the last sleep: progress 100, the artifact
\* is saved and logged, done is logged
AgentComplete(i) ==
    /\ kind = "agent" /\ wst[i] = "sleep4"
    /\ log' = log \o <<ProgressEvent(plan[i].id, 100, "T1"),
                       ArtifactEvent(plan[i].id, "T1"),
                       DoneEvent(plan[i].id, "success", "T1")>>
    /\ wst' = [wst EXCEPT ![i] = "success"]
    /\ UNCHANGED <<kind, unit, ccr_instance, xpc, xbatches, cur, all_results, plan, schedVars, logVars, loadVars, readVars>>

\* lines 136-138 and 93-103: saving the artifact raises (OSError), the
\* handler of spawn_worker logs the error
AgentFail(i) ==
    /\ kind = "agent" /\ wst[i] = "sleep4"
    /\ log' = log \o <<ProgressEvent(plan[i].id, 100, "T1"), ErrorEvent(plan[i].id, "T1")>>
    /\ wst' = [wst EXCEPT ![i] = "error"]
    /\ UNCHANGED <<kind, unit, ccr_instance, xpc, xbatches, cur, all_results, plan, schedVars, logVars, loadVars, readVars>>

\* execute_batch lines 158-175 and run lines 241-246
AgentBatchJoin ==
    /\ kind = "agent" /\ xpc = "gather"
    /\ batch_done(cur)
    /\ LET batch == xbatches[cur]
       IN  all_results' = all_results \o
               [k \in DOMAIN batch |->
                   [task_id |-> plan[batch[k]].id,
                    status |-> IF wst[batch[k]] = "success" THEN "success" ELSE "error"]]
    /\ xpc' = IF cur < Len(xbatches) THEN "sleep" ELSE "loop"
    /\ cur' = IF cur < Len(xbatches) THEN cur ELSE cur + 1
    /\ UNCHANGED <<kind, unit, ccr_instance, xbatches, wst, schedVars, hookVars, logVars, loadVars, readVars>>

\* run line 246: the sleep between two batches ends
AgentSleepDone ==
    /\ kind = "agent" /\ xpc = "sleep"
    /\ cur' = cur + 1
    /\ xpc' = "loop"
    /\ UNCHANGED <<kind, unit, ccr_instance, xbatches, wst, all_results, schedVars, hookVars, logVars, loadVars, readVars>>

\* run lines 249-267: the summary divides by len(all_results)
AgentReturn ==
    /\ kind = "agent" /\ xpc = "loop" /\ cur > Len(xbatches)
    /\ xpc' = IF all_results = <<>> THEN "raised" ELSE "returned"
    /\ UNCHANGED <<kind, unit, ccr_instance, xbatches, cur, wst, all_results,
                   schedVars, hookVars, logVars, loadVars, readVars>>

ExecNext ==
    \/ (kind = "ssh" /\ Validate)
    \/ (kind = "ssh" /\ NextBatch)
    \/ (kind = "ssh" /\ RaiseCircular)
    \/ (kind = "ssh" /\ ReturnBatches)
    \/ SshStart
    \/ SshAbort
    \/ SshLaunchBatch
    \/ \E i \in 1..3 : SshSpawn(i)
    \/ \E i \in 1..3 : SshProcessExit(i)
    \/ \E i \in 1..3 : SshCommunicateDone(i)
    \/ \E i \in 1..3 : SshTimeout(i)
    \/ \E i \in 1..3 : SshReaped(i)
    \/ SshBatchJoin
    \/ SshReturn
    \/ AgentStart
    \/ AgentLaunchBatch
    \/ \E i \in 1..3 : AgentProgress(i)
    \/ \E i \in 1..3 : AgentComplete(i)
    \/ \E i \in 1..3 : AgentFail(i)
    \/ AgentBatchJoin
    \/ AgentSleepDone
    \/ AgentReturn

SpecExec == ExecInit /\ [][ExecNext]_vars

\* the runs in which the last task depends on another one, so that no batch
\* holds all three tasks
ExecFairInit ==
    /\ ExecInit
    /\ kind = "ssh" => tasks[3].dependencies # {}
    /\ kind = "agent" => (plan # <<>> /\ plan[3].dependencies # {})

\* Every await of the two executors ends: wait_for bounds communicate() by
\* the task's timeout, process.wait() follows a kill, the agent's sleeps are
\* finite; and the event loop runs whatever is ready.
SpecExecFair == ExecFairInit /\ [][ExecNext]_vars /\ WF_vars(ExecNext)

(***************************************************************************)
(* Claims on the batch executors, checked under SpecExec                   *)
(***************************************************************************)
\* the executor has handed the task's unit of work to the event loop
Launched(i) == wst[i] \notin {"idle", "skipped"}

\* the unit of work has come to its outcome
Finished(i) == Launched(i) /\ wst[i] \notin Running

\* C4: in every execution of execute_all_batches and of OrchestratorAgent.run
\* no task of a later batch is launched while a task of an earlier batch has
\* not finished; the only tasks of an earlier batch without an outcome are
\* those execute_batch passed over for want of a port, which never ran.
C4_HardBarrier ==
    \A b1, b2 \in DOMAIN xbatches :
        b1 < b2 =>
            \A t \in Range(xbatches[b1]), u \in Range(xbatches[b2]) :
                Launched(u) => (Finished(t) \/ wst[t] = "skipped")

\* C4's case: two tasks of the first batch ended in timeout and in failure,
\* and a task of the second batch is running
C4_Witness ==
    /\ kind = "ssh"
    /\ Len(xbatches) >= 2
    /\ \E t1, t2 \in Range(xbatches[1]) : wst[t1] = "timeout" /\ wst[t2] = "failed"
    /\ \E u \in Range(xbatches[2]) : wst[u] = "communicating"

\* the executor has handed batch b to gather
BatchLaunched(b) == cur > b \/ (cur = b /\ xpc \in {"gather", "sleep"})

\* execute_all_batches / OrchestratorAgent.run is over: returned or raised
RunEnded == xpc \in {"returned", "raised"}

\* the next step of the unit of work of task i
UnitStep(i) ==
    \/ SshSpawn(i) \/ SshProcessExit(i) \/ SshCommunicateDone(i)
    \/ SshTimeout(i) \/ SshReaped(i)
    \/ AgentProgress(i) \/ AgentComplete(i) \/ AgentFail(i)

\* C11: in every execution, a task that fails or times out neither cancels
\* its siblings nor halts the run: whatever the outcomes so far, a unit of
\* work that has no outcome yet can still take its next step, the run cannot
\* stop before its end, and it ends only when every batch was launched and
\* every launched unit has come to an outcome of its own.
C11_NoCancelNoHalt ==
    /\ \A i \in DOMAIN wst : wst[i] \in Running => ENABLED UnitStep(i)
    /\ ~ RunEnded => ENABLED ExecNext
    /\ RunEnded =>
           /\ \A b \in DOMAIN xbatches : BatchLaunched(b)
           /\ \A i \in DOMAIN wst : Launched(i) => Finished(i)

\* C11 as progress, under SpecExecFair: every launched unit comes to its
\* outcome and every batch of the sequence is launched
C11_Progress ==
    /\ \A i \in 1..3 : (wst[i] \in Running) ~> Finished(i)
    /\ \A b \in 1..3 : (xpc = "loop" /\ b \in DOMAIN xbatches) ~> BatchLaunched(b)

\* C11's case: in the first batch one task timed out and its sibling went
\* on to succeed; the run went on, a task of the last batch has its outcome
\* too and execute_all_batches returned
C11_Witness ==
    /\ kind = "ssh"
    /\ Len(xbatches) = 2
    /\ \E t1, t2 \in Range(xbatches[1]) : wst[t1] = "timeout" /\ wst[t2] = "success"
    /\ \E u \in Range(xbatches[2]) : wst[u] = "success"
    /\ xpc = "returned"

\* the task a TaskResult of the ssh run belongs to
TaskOfResult(r) == CHOOSE i \in DOMAIN tasks : tasks[i].name = r.task_name

\* C12: under SSHExecutor, a unit whose timer fired before communicate()
\* returned is the only one that is killed and its TaskResult has status
\* timeout; every TaskResult has status success, failed or timeout; success
\* is recorded only for a process that exited with status 0 before the timer
\* fired.
C12_TimeoutOnlyThatUnit ==
    kind = "ssh" =>
        /\ \A i \in DOMAIN wst :
               /\ unit[i].timer = "expired" => wst[i] \in {"killing", "timeout"}
               /\ unit[i].process = "killed" => unit[i].timer = "expired"
        /\ \A k \in DOMAIN all_results :
               LET r == all_results[k]
                   u == unit[TaskOfResult(r)]
               IN  /\ r.status \in {"success", "failed", "timeout"}
                   /\ r.status = "timeout" <=> u.timer = "expired"
                   /\ r.status = "success" =>
                          /\ u.process = "exited"
                          /\ u.returncode = <<0>>
                          /\ u.timer = "cancelled"

\* C12's case: the results of one batch hold a timeout, whose process was
\* killed, next to a success, whose process was left to exit with status 0
C12_Witness ==
    /\ kind = "ssh"
    /\ \E k1, k2 \in DOMAIN all_results :
           /\ all_results[k1].status = "timeout"
           /\ unit[TaskOfResult(all_results[k1])].process = "killed"
           /\ all_results[k2].status = "success"
           /\ unit[TaskOfResult(all_results[k2])].returncode = <<0>>
           /\ \E b \in DOMAIN xbatches :
                  {TaskOfResult(all_results[k1]), TaskOfResult(all_results[k2])}
                      \subseteq Range(xbatches[b])

\* the worker id under which the events of task i are logged
WorkerId(i) == IF kind = "ssh" THEN tasks[i].name ELSE plan[i].id

IsTerminal(e) == e.type \in {"done", "error"}

\* the events of task i in the log: a start event first, at most one
\* terminal event, and once the unit has its outcome exactly one, in last
\* place
EventProtocol(i) ==
    LET recs == RecordsOf(WorkerId(i))
        Terminal(e) == IsTerminal(e)
    IN  /\ recs # <<>>
        /\ recs[1].type = "start"
        /\ Len(SelectSeq(recs, Terminal)) <= 1
        /\ Finished(i) =>
               /\ Len(SelectSeq(recs, Terminal)) = 1
               /\ IsTerminal(recs[Len(recs)])

\* C13: for every task a batch executor (OrchestratorAgent or SSHExecutor)
\* has launched, the log holds a start event of the task before any other of
\* its events and, once the task has its outcome, exactly one terminal event
\* (done or error), which is the last event of the task.
C13_EventProtocol == \A i \in DOMAIN wst : Launched(i) => EventProtocol(i)

\* what the code does keep: the protocol for the tasks of OrchestratorAgent
\* whose dictionary has id, name and prompt
C13_AgentOnly ==
    \A i \in DOMAIN wst :
        (kind = "agent" /\ Launched(i) /\ wst[i] # "raised") => EventProtocol(i)

\* the tasks of all batches, in batch order
RECURSIVE Flatten(_)
Flatten(bs) == IF bs = <<>> THEN <<>> ELSE Head(bs) \o Flatten(Tail(bs))

\* the task each collected result names, in the order of all_results
ResultIds ==
    [k \in DOMAIN all_results |->
        IF kind = "ssh" THEN all_results[k].task_name ELSE all_results[k].task_id]

\* one result for every task of every batch, in batch order
OneResultPerTask ==
    ResultIds = [k \in DOMAIN Flatten(xbatches) |-> WorkerId(Flatten(xbatches)[k])]

\* C14: the list execute_all_batches returns, and the one OrchestratorAgent.run
\* summarises, holds exactly one result for every task of every batch, in
\* batch order, whatever ports the execution targets are mapped to.
C14_OneResultPerTask == xpc = "returned" => OneResultPerTask

\* what the code does keep: one result per task when every ccr_instance of
\* the task file has a port, and always under OrchestratorAgent
C14_WhenPortsKnown ==
    (/\ xpc = "returned"
     /\ kind = "ssh" => \A i \in DOMAIN ccr_instance : ccr_instance[i] \in DOMAIN ccr_ports)
        => OneResultPerTask

C26_ErrorsAreLogged ==
    kind = "agent" =>
        \A k \in DOMAIN all_results :
            all_results[k].status = "error" => HasEvent(all_results[k].task_id, "error")

\* what the code does give: the error event for the errors of tasks whose
\* dictionary has id, name and prompt
C26_WhenDictionaryComplete ==
    kind = "agent" =>
        \A k \in DOMAIN all_results :
            LET r == all_results[k]
                task == find_task(plan, r.task_id)
            IN  (r.status = "error" /\ {"id", "name", "prompt"} \subseteq DOMAIN task)
                    => HasEvent(r.task_id, "error")

\* run lines 249-267: the summary, once the print of the success rate
\* (successful / len(all_results)) is past
run_summary(results) ==
    LET Successful(r) == r.status = "success"
        Failed(r) == r.status = "error"
    IN  [total_tasks |-> Len(results),
         successful |-> Len(SelectSeq(results, Successful)),
         failed |-> Len(SelectSeq(results, Failed))]

\* the summary adds up, and counts no failure when every worker completed
SummaryAddsUp ==
    LET summary == run_summary(all_results)
    IN  /\ summary.total_tasks = Len(plan)
        /\ summary.successful + summary.failed = summary.total_tasks
        /\ (\A i \in DOMAIN plan : wst[i] = "success") =>
               (summary.successful = summary.total_tasks /\ summary.failed = 0)

\* C32: for every loadable plan, one with an empty task list included,
\* OrchestratorAgent.run returns a summary in which total_tasks is the
\* number of tasks of the plan and successful + failed = total_tasks; when
\* every worker completes, successful = total_tasks and failed = 0.
C32_SummaryForEveryPlan ==
    (kind = "agent" /\ RunEnded) => (xpc = "returned" /\ SummaryAddsUp)

\* what the code does give: the summary for every plan with a task
C32_WhenPlanHasTasks ==
    (kind = "agent" /\ RunEnded /\ plan # <<>>) => (xpc = "returned" /\ SummaryAddsUp)

\* the unit of work of task i awaits the work itself: communicate() of the
\* remote command, a step of _execute_worker
AwaitsWork(i) == wst[i] \in {"communicating", "sleep1", "sleep2", "sleep3", "sleep4"}

\* the steps by which a timeout ends a unit of work: execute_task awaits
\* communicate() under wait_for(timeout=task.timeout); spawn_worker awaits
\* _execute_worker as it is
UnitTimeout(i) == SshTimeout(i)

\* C33: every launched task is bounded by its own timeout, under both
\* executors: whenever a unit of work awaits its work, the step that ends
\* it by timeout is possible, so that a unit whose work never completes is
\* terminated, the batch completes and the run goes on to its end.
C33_TimeoutBoundsEveryUnit ==
    \A i \in DOMAIN wst : AwaitsWork(i) => ENABLED UnitTimeout(i)

\* what the code does give: the bound under SSHExecutor
C33_SshUnitsBounded ==
    \A i \in DOMAIN wst : (kind = "ssh" /\ AwaitsWork(i)) => ENABLED UnitTimeout(i)

\* and, under SpecExecFair, where every await of the model ends (the sleeps
\* of _execute_worker are finite), every run comes to its end
C33_RunsEnd == <> RunEnded

\* the plan as a task list: ids for names
PlanAsTasks(p) == [i \in DOMAIN p |-> [name |-> p[i].id, dependencies |-> p[i].dependencies]]

\* the batches of the executor that hold plan position i
XBatchesOf(i) == {b \in DOMAIN xbatches : i \in Range(xbatches[b])}

\* every task in exactly one batch, the tasks without dependencies in the
\* first one, every dependency in a strictly earlier batch than its task
XTopoValid ==
    /\ \A i \in DOMAIN plan : Cardinality(XBatchesOf(i)) = 1
    /\ Len(Flatten(xbatches)) = Len(plan)
    /\ \A i \in DOMAIN plan : plan[i].dependencies = {} => XBatchesOf(i) = {1}
    /\ \A i, j \in DOMAIN plan :
           plan[j].id \in plan[i].dependencies =>
               \A bi \in XBatchesOf(i), bj \in XBatchesOf(j) : bj < bi

\* C28: for every acyclic plan, whatever the order of its tasks,
\* organize_tasks_into_batches returns batches whose concatenation is a
\* valid topological order: every task in exactly one batch, the tasks
\* without dependencies in the first, every dependency strictly earlier.
C28_AgentTopologicalOrder ==
    (kind = "agent" /\ xpc # "start" /\ Acyclic(PlanAsTasks(plan))) => XTopoValid

\* the dependent tasks of the plan stand after the tasks they depend on
InDependencyOrder(p) ==
    \A i, j \in DOMAIN p :
        (p[i].dependencies # {} /\ p[j].id \in p[i].dependencies) => j < i

\* what the code does give: the order is valid for the plans that list
\* every dependent task after its dependencies
C28_WhenPlanInOrder ==
    (kind = "agent" /\ xpc # "start" /\ InDependencyOrder(plan)) => XTopoValid

(***************************************************************************)
(* JSON text.  A text is a list of lexemes: the structural lexemes, a      *)
(* stretch of ordinary characters, or one of the characters that           *)
(* json.dumps escapes.  A Python str is the list of its stretches and      *)
(* special characters; a key with its quotes and colon is one lexeme.      *)
(***************************************************************************)
NL == "\n"
QUOTE == "\""
BACKSLASH == "\\"
LBRACE == "{"
RBRACE == "}"
COMMA == ", "

\* Python values: str, int and dict (a function from key names to values)
JStr(s) == [str |-> s]
JNum(n) == [num |-> n]
JObj(d) == [obj |-> d]
IsStr(v) == "str" \in DOMAIN v
IsNum(v) == "num" \in DOMAIN v
IsObj(v) == "obj" \in DOMAIN v

\* the insertion order of the keys the emit_* helpers and emit use
KeyOrder ==
    <<"worker_id", "type", "task", "percent", "message", "path", "status",
      "prompt", "timestamp">>

KeyLex(k) == QUOTE \o k \o QUOTE \o ": "

KeyLexemes == {KeyLex(k) : k \in Range(KeyOrder)}

key_of(lexeme) == CHOOSE k \in Range(KeyOrder) : KeyLex(k) = lexeme

\* the integers the events carry: the percents of emit_progress
Numbers == {0, 25, 50, 75, 100}

NumberLexemes == {ToString(n) : n \in Numbers}

parse_int(lexeme) == CHOOSE n \in Numbers : ToString(n) = lexeme

\* d[k] = v
Put(d, k, v) == [x \in DOMAIN d \cup {k} |-> IF x = k THEN v ELSE d[x]]

(***************************************************************************)
(* json.dumps(event), as emit calls it (event_logger.py line 46)           *)
(***************************************************************************)
escape_None(c) == <<c>>

\* the escapes of a string literal
escape(c) ==
    CASE c = NL -> <<BACKSLASH, "n">>
      [] c = QUOTE -> <<BACKSLASH, QUOTE>>
      [] c = BACKSLASH -> <<BACKSLASH, BACKSLASH>>
      [] OTHER -> <<c>>

RECURSIVE escape_string(_)
escape_string(str) ==
    IF str = <<>> THEN <<>> ELSE escape(Head(str)) \o escape_string(Tail(str))

RECURSIVE dumps(_)

dumps_value(v) ==
    CASE IsNum(v) -> <<ToString(v.num)>>
      [] IsStr(v) -> <<QUOTE>> \o escape_string(v.str) \o <<QUOTE>>
      [] OTHER -> dumps(v.obj)

RECURSIVE dumps_members(_, _)
dumps_members(d, keys) ==
    IF keys = <<>> THEN <<>>
    ELSE LET member == <<KeyLex(Head(keys))>> \o dumps_value(d[Head(keys)])
         IN  IF Len(keys) = 1 THEN member
             ELSE member \o <<COMMA>> \o dumps_members(d, Tail(keys))

\* the text of a dict, its members in insertion order
dumps(d) ==
    LET Has(k) == k \in DOMAIN d
    IN  <<LBRACE>> \o dumps_members(d, SelectSeq(KeyOrder, Has)) \o <<RBRACE>>

(***************************************************************************)
(* json.loads(line), as the readers call it (event_logger.py line 121).    *)
(* A parse gives ok and, when ok, the value and the position after it.     *)
(***************************************************************************)
ParseError == [ok |-> FALSE]

\* the rest of a string literal, from position i, after its opening quote
RECURSIVE scan_string(_, _, _)
scan_string(line, i, acc) ==
    IF i > Len(line) THEN ParseError
    ELSE IF line[i] = QUOTE THEN [ok |-> TRUE, value |-> JStr(acc), next |-> i + 1]
    ELSE IF line[i] = BACKSLASH
         THEN IF i + 1 > Len(line) THEN ParseError
              ELSE IF line[i + 1] = "n" THEN scan_string(line, i + 2, Append(acc, NL))
              ELSE IF line[i + 1] \in {QUOTE, BACKSLASH}
                   THEN scan_string(line, i + 2, Append(acc, line[i + 1]))
              ELSE ParseError
    ELSE IF line[i] = NL \/ line[i] \in KeyLexemes THEN ParseError
    ELSE scan_string(line, i + 1, Append(acc, line[i]))

RECURSIVE parse_value(_, _)

\* the members of an object from position i, where a key is due
RECURSIVE parse_members(_, _, _)
parse_members(line, i, acc) ==
    IF i > Len(line) \/ line[i] \notin KeyLexemes THEN ParseError
    ELSE LET v == parse_value(line, i + 1)
         IN  IF ~ v.ok \/ v.next > Len(line) THEN ParseError
             ELSE LET d == Put(acc, key_of(line[i]), v.value)
                  IN  IF line[v.next] = COMMA THEN parse_members(line, v.next + 1, d)
                      ELSE IF line[v.next] = RBRACE
                           THEN [ok |-> TRUE, value |-> JObj(d), next |-> v.next + 1]
                      ELSE ParseError

parse_value(line, i) ==
    IF i > Len(line) THEN ParseError
    ELSE IF line[i] = QUOTE THEN scan_string(line, i + 1, <<>>)
    ELSE IF line[i] \in NumberLexemes
         THEN [ok |-> TRUE, value |-> JNum(parse_int(line[i])), next |-> i + 1]
    ELSE IF line[i] = LBRACE
         THEN IF i + 1 <= Len(line) /\ line[i + 1] = RBRACE
              THEN [ok |-> TRUE, value |-> JObj(<<>>), next |-> i + 2]
              ELSE parse_members(line, i + 1, <<>>)
    ELSE ParseError

\* one value and nothing after it
loads(line) ==
    LET v == parse_value(line, 1)
    IN  IF v.ok /\ v.next = Len(line) + 1 THEN [ok |-> TRUE, value |-> v.value]
        ELSE ParseError

(***************************************************************************)
(* EventLogger.read_events                                                 *)
(***************************************************************************)
\* `for line in f`: the stretches of the file that a newline ends, and what
\* follows the last newline if anything does
RECURSIVE split_lines(_)
split_lines(f) ==
    IF f = <<>> THEN <<>>
    ELSE IF \E i \in DOMAIN f : f[i] = NL
         THEN LET k == CHOOSE i \in DOMAIN f : f[i] = NL /\ \A j \in 1..(i - 1) : f[j] # NL
              IN  <<SubSeq(f, 1, k - 1)>> \o split_lines(SubSeq(f, k + 1, Len(f)))
         ELSE <<f>>

IsSpace(lexeme) == lexeme \in {" ", "\t", "\r", NL}

\* line.strip()
RECURSIVE strip(_)
strip(line) ==
    IF line = <<>> THEN line
    ELSE IF IsSpace(Head(line)) THEN strip(Tail(line))
    ELSE IF IsSpace(line[Len(line)]) THEN strip(SubSeq(line, 1, Len(line) - 1))
    ELSE line

str_le_Strict(a, b) ==
    IF b = <<>> THEN FALSE
    ELSE IF a = <<>> THEN TRUE
    ELSE TsRank(a[1]) < TsRank(b[1])

\* a <= b on the strings that are timestamps ("" below every timestamp)
str_le(a, b) ==
    IF a = <<>> THEN TRUE
    ELSE IF b = <<>> THEN FALSE
    ELSE TsRank(a[1]) <= TsRank(b[1])

\* event.get("timestamp", "")
timestamp_of(event) ==
    IF "timestamp" \in DOMAIN event THEN event["timestamp"].str ELSE <<>>

RECURSIVE read_lines_UntilBad(_, _)
read_lines_UntilBad(lines, since) ==
    IF lines = <<>> THEN <<>>
    ELSE LET line == strip(Head(lines))
         IN  IF line = <<>> THEN read_lines_UntilBad(Tail(lines), since)
             ELSE LET parsed == loads(line)
                  IN  IF ~ parsed.ok THEN <<>>
                      ELSE LET event == IF IsObj(parsed.value) THEN parsed.value.obj
                                        ELSE parsed.value
                           IN  IF since # <<>> /\ str_le(timestamp_of(event), since)
                               THEN read_lines_UntilBad(Tail(lines), since)
                               ELSE <<event>> \o read_lines_UntilBad(Tail(lines), since)

\* read_events(since); since = "" stands for None as well (both are falsy).
\* The records are the parsed values: for an object, its dict.
RECURSIVE read_lines(_, _)
read_lines(lines, since) ==
    IF lines = <<>> THEN <<>>
    ELSE LET line == strip(Head(lines))
             events == read_lines(Tail(lines), since)
         IN  IF line = <<>> THEN events
             ELSE LET parsed == loads(line)
                  IN  IF ~ parsed.ok THEN events
                      ELSE LET event == IF IsObj(parsed.value) THEN parsed.value.obj
                                        ELSE parsed.value
                           IN  IF since # <<>> /\ str_le(timestamp_of(event), since)
                               THEN events
                               ELSE <<event>> \o events

read_events(f, since) == read_lines(split_lines(f), since)

(***************************************************************************)
(* The file as the hooks read it (the form of the variable log): its       *)
(* non-blank lines, parsed, with each str as one string                    *)
(***************************************************************************)
RECURSIVE Join(_)
Join(str) == IF str = <<>> THEN "" ELSE Head(str) \o Join(Tail(str))

RECURSIVE Plain(_)
Plain(v) ==
    CASE IsNum(v) -> v.num
      [] IsStr(v) -> Join(v.str)
      [] OTHER -> [k \in DOMAIN v.obj |-> Plain(v.obj[k])]

RECURSIVE seen(_)
seen(lines) ==
    IF lines = <<>> THEN <<>>
    ELSE LET line == strip(Head(lines))
         IN  IF line = <<>> THEN seen(Tail(lines))
             ELSE LET v == loads(line)
                  IN  <<IF v.ok /\ IsObj(v.value) THEN Plain(v.value)
                        ELSE IF v.ok THEN [not_dict |-> TRUE]
                        ELSE GarbageLine>> \o seen(Tail(lines))

lines_seen(f) == seen(split_lines(f))

(***************************************************************************)
(* The producers.  Every WorkerAgent and the OrchestratorAgent construct   *)
(* an EventLogger of their own on the same events.jsonl (worker_agent.py   *)
(* line 49, orchestrator_agent.py line 43); threads of one process may     *)
(* share one.  A producer emits the events of its own worker id.           *)
(***************************************************************************)
MaxEmits == 3

\* a write puts out the line whole, or in two parts, the first or the second
\* of them at most MaxSplit lexemes long
MaxSplit == 1

Producers == {"p1", "p2"}

LoggerIds == {"L1", "L2"}

WorkerOf == [p1 |-> <<"w1">>, p2 |-> <<"w2">>]

\* the event dictionaries the emit_* helpers hand to emit (lines 48-97)
emit_start(worker_id, task_name, prompt) ==
    [worker_id |-> JStr(worker_id), type |-> JStr(<<"start">>),
     task |-> JStr(task_name), prompt |-> JStr(prompt)]

emit_progress(worker_id, percent, message) ==
    [worker_id |-> JStr(worker_id), type |-> JStr(<<"progress">>),
     percent |-> JNum(percent), message |-> JStr(message)]

emit_artifact(worker_id, artifact_path) ==
    [worker_id |-> JStr(worker_id), type |-> JStr(<<"artifact">>),
     path |-> JStr(artifact_path)]

emit_done(worker_id, status) ==
    [worker_id |-> JStr(worker_id), type |-> JStr(<<"done">>), status |-> JStr(status)]

emit_error(worker_id, message) ==
    [worker_id |-> JStr(worker_id), type |-> JStr(<<"error">>),
     message |-> JStr(message)]

\* task names: plain, with a newline, with quotes, with a backslash before n
TextSamples ==
    {<<"build">>, <<"a", NL, "b">>, <<"say ", QUOTE, "hi", QUOTE>>, <<BACKSLASH, "n">>}

\* what a producer emits: a producer of its own draws from every sample,
\* concurrent producers from two events each
LogEvents(p) ==
    IF producers = {p}
    THEN {emit_start(WorkerOf[p], t, <<"prompt">>) : t \in TextSamples}
             \cup {emit_progress(WorkerOf[p], 50, <<>>),
                   emit_done(WorkerOf[p], <<"success">>)}
    ELSE {emit_progress(WorkerOf[p], 50, <<>>), emit_done(WorkerOf[p], <<"success">>)}

EmitCalls == LET n(p) == Len(emitted[p]) IN n("p1") + n("p2")

append_AtStart(f, text) == text \o f

\* open(path, 'a') and write: the text goes to the end of the file
append(f, text) == f \o text

LogInit ==
    /\ file = <<>>
    /\ producers = Producers
    /\ logger \in {[p1 |-> "L1", p2 |-> "L1"], [p1 |-> "L1", p2 |-> "L2"]}
    /\ lock = [l \in LoggerIds |-> "free"]
    /\ ppc = [p \in Producers |-> "idle"]
    /\ pend = [p \in Producers |-> <<>>]
    /\ emitted = [p \in Producers |-> <<>>]
    /\ now = 1
    /\ SchedIdle
    /\ HooksIdle
    /\ ExecIdle
    /\ LoadIdle
    /\ ReadIdle

\* a single producer on a fresh log
RoundTripInit ==
    /\ file = <<>>
    /\ producers = {"p1"}
    /\ logger = [p1 |-> "L1", p2 |-> "L2"]
    /\ lock = [l \in LoggerIds |-> "free"]
    /\ ppc = [p \in Producers |-> "idle"]
    /\ pend = [p \in Producers |-> <<>>]
    /\ emitted = [p \in Producers |-> <<>>]
    /\ now = 1
    /\ SchedIdle
    /\ HooksIdle
    /\ ExecIdle
    /\ LoadIdle
    /\ ReadIdle

\* the clock advances
Tick ==
    /\ now < Len(Timestamps)
    /\ now' = now + 1
    /\ UNCHANGED <<file, producers, logger, lock, ppc, pend, emitted,
                   schedVars, hookVars, execVars, loadVars, readVars>>

\* emit lines 39-41: the call is made, the timestamp is added if missing
EmitStamp(p) ==
    /\ p \in producers /\ ppc[p] = "idle"
    /\ EmitCalls < MaxEmits
    /\ \E e \in LogEvents(p) :
          LET event == IF "timestamp" \in DOMAIN e THEN e
                       ELSE Put(e, "timestamp", JStr(<<Timestamps[now]>>))
          IN  emitted' = [emitted EXCEPT ![p] = Append(@, event)]
    /\ ppc' = [ppc EXCEPT ![p] = "stamped"]
    /\ UNCHANGED <<file, producers, logger, lock, pend, now,
                   schedVars, hookVars, execVars, loadVars, readVars>>

\* emit lines 44-46: the _lock of the producer's own EventLogger is taken,
\* the file is opened and the line is built
EmitLock(p) ==
    /\ ppc[p] = "stamped"
    /\ lock[logger[p]] = "free"
    /\ lock' = [lock EXCEPT ![logger[p]] = p]
    /\ pend' = [pend EXCEPT ![p] = dumps(emitted[p][Len(emitted[p])]) \o <<NL>>]
    /\ ppc' = [ppc EXCEPT ![p] = "writing"]
    /\ UNCHANGED <<file, producers, logger, emitted, now, schedVars, hookVars, execVars, loadVars, readVars>>

\* line 46 and the end of both with blocks: the text, or what is left of it,
\* reaches the file, the file is closed and the _lock released
EmitWrite(p) ==
    /\ ppc[p] \in {"writing", "partial"}
    /\ file' = append(file, pend[p])
    /\ pend' = [pend EXCEPT ![p] = <<>>]
    /\ lock' = [lock EXCEPT ![logger[p]] = "free"]
    /\ ppc' = [ppc EXCEPT ![p] = "idle"]
    /\ UNCHANGED <<producers, logger, emitted, now, schedVars, hookVars, execVars, loadVars, readVars>>

\* the text reaches the file in two pieces (the appends of writers that do
\* not exclude each other are not atomic): the first k lexemes now
EmitWritePart(p) ==
    /\ ppc[p] = "writing"
    /\ \E k \in 1..(Len(pend[p]) - 1) :
          /\ k <= MaxSplit \/ k >= Len(pend[p]) - MaxSplit
          /\ file' = append(file, SubSeq(pend[p], 1, k))
          /\ pend' = [pend EXCEPT ![p] = SubSeq(pend[p], k + 1, Len(pend[p]))]
    /\ ppc' = [ppc EXCEPT ![p] = "partial"]
    /\ UNCHANGED <<producers, logger, lock, emitted, now,
                   schedVars, hookVars, execVars, loadVars, readVars>>

LogNext ==
    \/ \E p \in Producers : EmitStamp(p)
    \/ \E p \in Producers : EmitLock(p)
    \/ \E p \in Producers : EmitWrite(p)
    \/ \E p \in Producers : EmitWritePart(p)

SpecLog == LogInit /\ [][LogNext]_vars

\* the single producer, with the clock advancing between its calls
RoundTripNext ==
    \/ Tick
    \/ \E p \in Producers : EmitStamp(p)
    \/ \E p \in Producers : EmitLock(p)
    \/ \E p \in Producers : EmitWrite(p)
    \/ \E p \in Producers : EmitWritePart(p)

SpecRoundTrip == RoundTripInit /\ [][RoundTripNext]_vars

(***************************************************************************)
(* Claims on the event log                                                 *)
(***************************************************************************)
\* read_events() of the file as it stands
EventsRead == read_events(file, <<>>)

\* the records of one worker id among those read, in file order
RecordsOf_In(w, events) ==
    LET Mine(e) == "worker_id" \in DOMAIN e /\ e["worker_id"] = JStr(w)
    IN  SelectSeq(events, Mine)

RecordsInLog(w) == RecordsOf_In(w, EventsRead)

\* the producer is between open and close of the file, inside its with blocks
InWrite(p) == ppc[p] \in {"writing", "partial"}

RECURSIVE IsSubseq(_, _)
IsSubseq(a, b) ==
    IF a = <<>> THEN TRUE
    ELSE IF b = <<>> THEN FALSE
    ELSE IF Head(a) = Head(b) THEN IsSubseq(Tail(a), Tail(b))
    ELSE IsSubseq(a, Tail(b))

\* C8: after any sequence of emit calls by a single producer on a fresh log,
\* read_events() returns exactly the emitted events (with the timestamp emit
\* gave them), one record per emit, in emit order, every field intact.
C8_RoundTrip ==
    (producers = {"p1"} /\ ppc["p1"] = "idle") => EventsRead = emitted["p1"]

\* C8's case: start (its task name holding a newline), progress(50) and
\* done(success) of w1 were emitted and are read back as three records
C8_Witness ==
    /\ producers = {"p1"} /\ ppc["p1"] = "idle"
    /\ Len(emitted["p1"]) = 3
    /\ emitted["p1"][1].type = JStr(<<"start">>)
    /\ emitted["p1"][1].task = JStr(<<"a", NL, "b">>)
    /\ emitted["p1"][2].type = JStr(<<"progress">>)
    /\ emitted["p1"][2].percent = JNum(50)
    /\ emitted["p1"][3].type = JStr(<<"done">>)
    /\ Len(EventsRead) = 3
    /\ EventsRead[1].task = JStr(<<"a", NL, "b">>)
    /\ EventsRead[2].percent = JNum(50)

\* C9: no two producers are ever inside the file write at the same time,
\* whatever EventLogger objects they hold.
C9_SingleWriter ==
    \A p, q \in Producers : (InWrite(p) /\ InWrite(q)) => p = q

\* what the code does give: exclusion among the holders of one EventLogger
C9_PerObjectOnly ==
    \A p, q \in Producers :
        (InWrite(p) /\ InWrite(q) /\ logger[p] = logger[q]) => p = q

\* C10: under any interleaving of the producers, the records of one worker
\* stand in the log in the order in which that worker emitted them.
C10_WorkerOrder ==
    LET events == EventsRead
    IN  \A p \in Producers : IsSubseq(RecordsOf_In(WorkerOf[p], events), emitted[p])

\* C10's case: two producers with EventLogger objects of their own; a record
\* of w2 stands between two different records of w1, which are in emit order
C10_Witness ==
    /\ logger["p1"] # logger["p2"]
    /\ Len(EventsRead) = 3
    /\ EventsRead[1]["worker_id"] = JStr(<<"w1">>)
    /\ EventsRead[2]["worker_id"] = JStr(<<"w2">>)
    /\ EventsRead[3]["worker_id"] = JStr(<<"w1">>)
    /\ EventsRead[1] # EventsRead[3]
    /\ emitted["p1"] = <<EventsRead[1], EventsRead[3]>>

\* with one EventLogger for all producers no record is lost either
C10_NothingLostUnderOneLock ==
    (logger["p1"] = logger["p2"] /\ \A p \in Producers : ppc[p] = "idle")
        => \A p \in Producers : RecordsInLog(WorkerOf[p]) = emitted[p]

\* with EventLogger objects of their own, every emit returns with its
\* record in the log (refuted: lines of interleaved writes are lost)
C10_NothingLost ==
    (\A p \in Producers : ppc[p] = "idle")
        => \A p \in Producers : RecordsInLog(WorkerOf[p]) = emitted[p]

(***************************************************************************)
(* The readers of events.jsonl: EventLogger.read_events and the hooks       *)
(* (StatusFormatter._load_events, DependencyChecker._get_completed_tasks    *)
(* and _get_started_tasks), on a file that a producer and foreign writers   *)
(* have put lines into                                                      *)
(***************************************************************************)
MaxReadLines == 3
MaxReads == 2

FileNotFound == <<"FileNotFoundError">>

read_events_at_NoCheck(there, f, since) ==
    IF there THEN read_events(f, since) ELSE FileNotFound

\* read_events lines 109-113: no file, no events; else the file is read
read_events_at(there, f, since) ==
    IF ~ there THEN <<>> ELSE read_events(f, since)

\* the hooks: `if events_file.exists()` around the loop over the lines
hook_lines(there, f) == IF there THEN lines_seen(f) ELSE <<>>

\* plan.json of the session the hooks are asked about
ReadPlan == <<[id |-> "w1", dependencies |-> {}], [id |-> "w2", dependencies |-> {"w1"}]>>

\* what the producer emits
ReadEvents ==
    {emit_start(<<"w1">>, <<"build">>, <<"prompt">>), emit_done(<<"w1">>, <<"success">>)}

\* lines that are no record: one that is not JSON, a blank one
ForeignLines == {<<LBRACE, "not json">>, <<" ">>}

\* the number of lines of the file (every write ends its line)
line_count(f) == Cardinality({i \in DOMAIN f : f[i] = NL})

\* the arguments of read_events: None, or a timestamp
SinceArgs == {<<>>} \cup {<<Timestamps[k]>> : k \in DOMAIN Timestamps}

ReadInit ==
    /\ exists = FALSE
    /\ file = <<>>
    /\ reads = <<>>
    /\ plan = ReadPlan
    /\ log = <<>>
    /\ producers = {"p1"}
    /\ logger = [p1 |-> "L1", p2 |-> "L2"]
    /\ lock = [l \in LoggerIds |-> "free"]
    /\ ppc = [p \in Producers |-> "idle"]
    /\ pend = [p \in Producers |-> <<>>]
    /\ emitted = [p \in Producers |-> <<>>]
    /\ now = 1
    /\ SchedIdle
    /\ ExecIdle
    /\ LoadIdle
    /\ SessIdle

\* emit, from call to return, by the only producer: the clock is read, the
\* line is appended (open(path, 'a') makes the file if there is none)
ReadEmit ==
    /\ line_count(file) < MaxReadLines
    /\ \E e \in ReadEvents, t \in DOMAIN Timestamps :
          LET event == Put(e, "timestamp", JStr(<<Timestamps[t]>>))
          IN  /\ now' = t
              /\ emitted' = [emitted EXCEPT !["p1"] = Append(@, event)]
              /\ file' = append(file, dumps(event) \o <<NL>>)
    /\ exists' = TRUE
    /\ log' = hook_lines(exists', file')
    /\ reads' = <<>>
    /\ UNCHANGED <<plan, producers, logger, lock, ppc, pend, schedVars, execVars, loadVars,
                   sessVars>>

\* a line that no emit wrote gets into the file (a torn write, an editor)
ForeignWrite ==
    /\ line_count(file) < MaxReadLines
    /\ \E text \in ForeignLines : file' = append(file, text \o <<NL>>)
    /\ exists' = TRUE
    /\ log' = hook_lines(exists', file')
    /\ reads' = <<>>
    /\ UNCHANGED <<plan, producers, logger, lock, ppc, pend, emitted, now,
                   schedVars, execVars, loadVars, sessVars>>

CallReadEvents_Consuming(since) ==
    /\ Len(reads) < MaxReads
    /\ reads' = Append(reads, [since |-> since,
                               result |-> read_events_at(exists, file, since),
                               path |-> [exists |-> exists, file |-> file]])
    /\ file' = <<>>
    /\ UNCHANGED <<exists, hookVars, producers, logger, lock, ppc, pend, emitted, now,
                   schedVars, execVars, loadVars, sessVars>>

\* a call of read_events(since); `reads` keeps the calls made since the
\* last write, each with the file it found
CallReadEvents(since) ==
    /\ Len(reads) < MaxReads
    /\ reads' = Append(reads, [since |-> since,
                               result |-> read_events_at(exists, file, since),
                               path |-> [exists |-> exists, file |-> file]])
    /\ UNCHANGED <<exists, hookVars, logVars, schedVars, execVars, loadVars, sessVars>>

ReadNext ==
    \/ ReadEmit
    \/ ForeignWrite
    \/ \E since \in SinceArgs : CallReadEvents(since)

SpecRead == ReadInit /\ [][ReadNext]_vars

(***************************************************************************)
(* Claims on the readers, checked under SpecRead                           *)
(***************************************************************************)
\* the records the producer has written, in the form the hooks see them
WrittenPlain == [k \in DOMAIN emitted["p1"] |-> Plain(JObj(emitted["p1"][k]))]

WrittenOfType(ty) ==
    {WrittenPlain[k].worker_id : k \in {j \in DOMAIN WrittenPlain : WrittenPlain[j].type = ty}}

\* the file holds a line that is not valid JSON
HasBadLine == \E i \in DOMAIN file : file[i] = "not json"

\* C17: whatever lines that are not valid JSON the log holds, every reader
\* (read_events, _load_events, the two scans of DependencyChecker) passes
\* over them and returns every valid line, those before and those after, in
\* file order.  (`reads` holds the calls made on the file as it stands, `log`
\* what the hooks parse from it.)
C17_BadLinesSkipped ==
    /\ \A k \in DOMAIN reads : reads[k].since = <<>> => reads[k].result = emitted["p1"]
    /\ load_events(log) = WrittenPlain
    /\ get_started_tasks(log) = WrittenOfType("start")
    /\ get_completed_tasks(log) = WrittenOfType("done")

\* C17's case: a line that is not JSON stands between two records, and a
\* call of read_events has returned the two
C17_Witness ==
    /\ HasBadLine
    /\ Len(emitted["p1"]) = 2
    /\ Len(split_lines(file)) = 3
    /\ strip(split_lines(file)[2]) = <<LBRACE, "not json">>
    /\ reads # <<>>
    /\ reads[1].since = <<>>
    /\ Len(reads[1].result) = 2
    /\ Len(load_events(log)) = 2

WrittenAfter(since) ==
    LET After(e) == TsRank(e.timestamp.str[1]) > TsRank(since[1])
    IN  SelectSeq(emitted["p1"], After)

\* C19: every call read_events(since) returns, in file order, exactly the
\* valid records whose timestamp is strictly greater than since; every call
\* read_events() returns all valid records in file order.
C19_SinceFilter ==
    \A k \in DOMAIN reads :
        reads[k].result =
            IF reads[k].since = <<>> THEN emitted["p1"] ELSE WrittenAfter(reads[k].since)

\* C19's case: of two records stamped T2 and T1, in this order in the file,
\* read_events("T1") has returned the first only
C19_Witness ==
    /\ Len(emitted["p1"]) = 2
    /\ emitted["p1"][1].timestamp = JStr(<<"T2">>)
    /\ emitted["p1"][2].timestamp = JStr(<<"T1">>)
    /\ reads # <<>>
    /\ reads[1].since = <<"T1">>
    /\ reads[1].result = <<emitted["p1"][1]>>

\* C20: with no events.jsonl, every call of read_events returns [],
\* both forms of the status projection report every task of the plan as
\* waiting, and get_ready_tasks finds no task started or completed: it
\* returns the tasks without dependencies.
C20_MissingFileIsEmpty ==
    ~ exists =>
        /\ \A k \in DOMAIN reads : reads[k].result = <<>>
        /\ \A i \in DOMAIN plan :
               /\ get_detailed_status(hook_lines(exists, file), plan)[plan[i].id].status = "waiting"
               /\ get_latest_status(hook_lines(exists, file), plan)[i] = plan[i].id \o " " \o format_waiting
        /\ get_started_tasks(hook_lines(exists, file)) = {}
        /\ get_completed_tasks(hook_lines(exists, file)) = {}
        /\ get_ready_tasks(hook_lines(exists, file), plan) = <<"w1">>

\* C20's case: there is no file and read_events was called twice
C20_Witness ==
    /\ ~ exists
    /\ Len(reads) = 2
    /\ reads[1].since = <<>>
    /\ reads[2].since = <<"T1">>


(***************************************************************************)
(* The session directory (.claude/parallel-state): plan.json, which         *)
(* PlanGenerator.save_plan writes, events.jsonl, and the operations on      *)
(* them: emit, read_events, archive, clear, the hooks that read the plan    *)
(* and OrchestratorAgent.load_plan                                          *)
(***************************************************************************)
MaxSessEmits == 2

\* the operations that open plan.json
PlanReaders ==
    {"get_latest_status", "get_detailed_status", "check_dependencies",
     "get_blocking_dependencies", "get_ready_tasks", "load_plan"}

\* the task the gate is asked about
SessTask == "w2"

\* what a call returns: a value, or the exception it raises
Returned(v) == [raised |-> FALSE, value |-> v]
Raised(e) == [raised |-> TRUE, value |-> e]

\* StatusFormatter lines 29-34 and 63-67, DependencyChecker lines 36-40,
\* 78-82 and 111-115: `try: open(plan_path) ... except FileNotFoundError:
\* return` "", {}, True, [], []; OrchestratorAgent.load_plan lines 47-51:
\* `if not self.plan_path.exists(): raise FileNotFoundError`
plan_reader(op, there, lines, p) ==
    CASE op = "get_latest_status" ->
            Returned(IF ~ there THEN <<>> ELSE get_latest_status(lines, p))
      [] op = "get_detailed_status" ->
            Returned(IF ~ there THEN <<>> ELSE get_detailed_status(lines, p))
      [] op = "check_dependencies" ->
            Returned(IF ~ there THEN TRUE ELSE check_dependencies(lines, p, SessTask))
      [] op = "get_blocking_dependencies" ->
            Returned(IF ~ there THEN {} ELSE get_blocking_dependencies(lines, p, SessTask))
      [] op = "get_ready_tasks" ->
            Returned(IF ~ there THEN <<>> ELSE get_ready_tasks(lines, p))
      [] op = "load_plan" ->
            IF ~ there THEN Raised(FileNotFound) ELSE Returned(p)

\* events.jsonl and what the readers find at its path
LiveLog == [exists |-> exists, file |-> file]

SessInit ==
    /\ plan_exists \in BOOLEAN
    /\ plan = ReadPlan
    /\ exists = FALSE
    /\ file = <<>>
    /\ log = <<>>
    /\ reads = <<>>
    /\ archive_file = <<>>
    /\ last_call = NoCall
    /\ producers = {"p1"}
    /\ logger = [p1 |-> "L1", p2 |-> "L2"]
    /\ lock = [l \in LoggerIds |-> "free"]
    /\ ppc = [p \in Producers |-> "idle"]
    /\ pend = [p \in Producers |-> <<>>]
    /\ emitted = [p \in Producers |-> <<>>]
    /\ now = 1
    /\ SchedIdle
    /\ ExecIdle
    /\ LoadIdle

\* PlanGenerator.save_plan lines 185-189: plan.json is written
SavePlan ==
    /\ ~ plan_exists
    /\ plan_exists' = TRUE
    /\ last_call' = [op |-> "save_plan", live |-> LiveLog]
    /\ UNCHANGED <<plan, log, exists, reads, archive_file, logVars, schedVars, execVars,
                   loadVars>>

\* emit, from call to return: open(path, 'a') makes the file if there is
\* none and puts the line at its end
SessEmit ==
    /\ Len(emitted["p1"]) < MaxSessEmits
    /\ \E e \in ReadEvents :
          LET event == Put(e, "timestamp", JStr(<<Timestamps[now]>>))
          IN  /\ emitted' = [emitted EXCEPT !["p1"] = Append(@, event)]
              /\ file' = append(file, dumps(event) \o <<NL>>)
    /\ exists' = TRUE
    /\ log' = hook_lines(exists', file')
    /\ last_call' = [op |-> "emit", live |-> LiveLog]
    /\ UNCHANGED <<plan, reads, plan_exists, archive_file, producers, logger, lock, ppc,
                   pend, now, schedVars, execVars, loadVars>>

\* a call of read_events(since)
SessRead(since) ==
    /\ last_call' = [op |-> "read_events", since |-> since, live |-> LiveLog,
                result |-> read_events_at(exists, file, since)]
    /\ UNCHANGED <<hookVars, exists, reads, plan_exists, archive_file, logVars, schedVars,
                   execVars, loadVars>>

archive_Moving(there, f, side) ==
    IF ~ there
    THEN [result |-> "", side |-> side, exists |-> there, file |-> f]
    ELSE [result |-> "archive/events.jsonl", side |-> f, exists |-> FALSE, file |-> <<>>]

\* archive lines 174-187: "" when there is no file; else shutil.copy2 puts
\* a copy of the file at the archive path, which is returned
archive(there, f, side) ==
    IF ~ there
    THEN [result |-> "", side |-> side, exists |-> there, file |-> f]
    ELSE [result |-> "archive/events.jsonl", side |-> f, exists |-> there, file |-> f]

SessArchive ==
    LET done == archive(exists, file, archive_file)
    IN  /\ archive_file' = done.side
        /\ exists' = done.exists
        /\ file' = done.file
        /\ log' = hook_lines(exists', file')
        /\ last_call' = [op |-> "archive", result |-> done.result, live |-> LiveLog]
        /\ UNCHANGED <<plan, reads, plan_exists, producers, logger, lock, ppc, pend,
                       emitted, now, schedVars, execVars, loadVars>>

\* clear lines 161-162: the file, if there is one, is unlinked
clear(there, f) == [exists |-> FALSE, file |-> <<>>]

SessClear ==
    LET done == clear(exists, file)
    IN  /\ exists' = done.exists
        /\ file' = done.file
        /\ log' = hook_lines(exists', file')
        /\ last_call' = [op |-> "clear", live |-> LiveLog]
        /\ UNCHANGED <<plan, reads, plan_exists, archive_file, producers, logger, lock,
                       ppc, pend, emitted, now, schedVars, execVars, loadVars>>

\* a call of one of the readers of plan.json
SessCall(op) ==
    /\ last_call' = [op |-> op, plan_exists |-> plan_exists, live |-> LiveLog,
                result |-> plan_reader(op, plan_exists, log, plan)]
    /\ UNCHANGED <<hookVars, exists, reads, plan_exists, archive_file, logVars, schedVars,
                   execVars, loadVars>>

SessNext ==
    \/ SavePlan
    \/ SessEmit
    \/ \E since \in SinceArgs : SessRead(since)
    \/ SessArchive
    \/ SessClear
    \/ \E op \in PlanReaders : SessCall(op)

SpecSession == SessInit /\ [][SessNext]_vars

(***************************************************************************)
(* Claims on the session directory, checked under SpecSession              *)
(***************************************************************************)
\* what a reader of the plan returns for an empty state
Neutral ==
    [get_latest_status |-> <<>>, get_detailed_status |-> <<>>,
     check_dependencies |-> TRUE, get_blocking_dependencies |-> {},
     get_ready_tasks |-> <<>>, load_plan |-> <<>>]

\* the last call was a reader of the plan that found no plan.json
ReadMissingPlan == last_call.op \in PlanReaders /\ ~ last_call.plan_exists

\* C21: no reader of the plan (the status projection, the readiness gate,
\* the orchestrator's plan load) raises when plan.json is missing: each
\* returns its empty or neutral result.
C21_MissingPlanNeverFatal ==
    ReadMissingPlan =>
        /\ ~ last_call.result.raised
        /\ last_call.result.value = Neutral[last_call.op]

\* what the code does: the hooks return their neutral result, load_plan
\* raises FileNotFoundError
C21_HooksOnly ==
    ReadMissingPlan =>
        IF last_call.op = "load_plan"
        THEN last_call.result = Raised(FileNotFound)
        ELSE last_call.result = Returned(Neutral[last_call.op])

\* a is a prefix of b
IsPrefix(a, b) == Len(a) <= Len(b) /\ SubSeq(b, 1, Len(a)) = a

\* the records of the log, as read_events() returns them
LogRecords == read_events_at(exists, file, <<>>)

\* the records the log held when the last operation was called
RecordsBefore == read_events_at(last_call.live.exists, last_call.live.file, <<>>)

\* C22: the log is append-only: with no clear, the records the log holds
\* at one moment are a prefix of the records it holds at any later moment.
\* Checked under SpecLog, whose steps are those of producers that emit at
\* the same time; no step of SpecLog is a clear.
C22_NoRecordRemoved ==
    [][IsPrefix(read_events(file, <<>>), read_events(file', <<>>))]_vars

\* what holds under SpecSession, where the operations do not overlap: after
\* an emit, a read_events, an archive, a status or readiness hook (any
\* operation but clear) the records the log held at the call are a prefix
\* of the records it holds
C22_WholeCallsAppendOnly ==
    last_call.op \notin {"none", "clear"} => IsPrefix(RecordsBefore, LogRecords)


\* C23: archive() leaves the live log as it found it and, when there is
\* one, returns the path of a side file whose records are those of the live
\* log at the call (with no live log it returns "" and writes nothing);
\* clear() removes the live file; from then on there is no file, and
\* read_events returns [], until the next emit.
C23_ArchiveAndClear ==
    /\ last_call.op = "archive" =>
           /\ LiveLog = last_call.live
           /\ IF last_call.live.exists
              THEN /\ last_call.result # ""
                   /\ read_events(archive_file, <<>>) = RecordsBefore
              ELSE last_call.result = ""
    /\ last_call.op = "clear" => (~ exists /\ LogRecords = <<>>)
    /\ (last_call.op \notin {"none", "emit"} /\ ~ last_call.live.exists) => ~ exists
    /\ (last_call.op = "read_events" /\ ~ last_call.live.exists) => last_call.result = <<>>

\* C23's case: a log of two records was archived, then cleared, and a call
\* of read_events has returned [] since; the side file holds the two records
C23_Witness ==
    /\ Len(emitted["p1"]) = 2
    /\ read_events(archive_file, <<>>) = emitted["p1"]
    /\ ~ exists
    /\ last_call.op = "read_events"
    /\ last_call.since = <<>>
    /\ last_call.result = <<>>

(***************************************************************************)
(* PlanGenerator (src/src/hooks/plan_generator.py): generate_plan and       *)
(* save_plan.  A prompt is given by what the regular expressions find in    *)
(* it: the keywords of determine_work_type and the targets of               *)
(* extract_targets.                                                         *)
(***************************************************************************)
MaxTargets == 3

Targets == {"A", "B"}

TargetLists == UNION {[1..n -> Targets] : n \in 0..MaxTargets}

\* the keywords determine_work_type looks for, in the order of its tests
WorkTypes == <<"test", "analyze", "review", "generate", "create", "process", "check">>

Prompts == [keywords : SUBSET {"test", "analyze", "check"}, targets : TargetLists]

\* determine_work_type: the first keyword of the chain that the prompt holds
determine_work_type(prompt) ==
    IF \E k \in DOMAIN WorkTypes : WorkTypes[k] \in prompt.keywords
    THEN WorkTypes[CHOOSE k \in DOMAIN WorkTypes :
             /\ WorkTypes[k] \in prompt.keywords
             /\ \A j \in 1..(k - 1) : WorkTypes[j] \notin prompt.keywords]
    ELSE "execute"

\* f"w{i}"
worker_id(i) == "w" \o ToString(i)

merge_id_OffByOne(n) == worker_id(n)

\* line 155: "id": f"w{len(tasks) + 1}"
merge_id(n) == worker_id(n + 1)

\* generate_plan lines 128-172; targets is None (<<"None">>) or a list
generate_plan(prompt, targets) ==
    LET given == IF targets = <<None>> THEN prompt.targets ELSE targets
        used == IF given = <<>> THEN <<"default">> ELSE given
        work_type == determine_work_type(prompt)
        workers == [i \in DOMAIN used |->
                       [id |-> worker_id(i), name |-> <<work_type, used[i]>>,
                        prompt |-> "prompt", target |-> used[i],
                        dependencies |-> {}, status |-> "pending"]]
        merge_task == [id |-> merge_id(Len(workers)), name |-> <<"Merge Results">>,
                       prompt |-> "prompt",
                       dependencies |-> {worker_id(i) : i \in 1..Len(workers)},
                       status |-> "pending"]
        all_tasks == IF Len(workers) > 1 THEN Append(workers, merge_task) ELSE workers
    IN  [work_type |-> work_type, total_tasks |-> Len(all_tasks), tasks |-> all_tasks]

PlanInit ==
    /\ plan_exists = FALSE
    /\ plan = <<>>
    /\ log = <<>>
    /\ exists = FALSE
    /\ reads = <<>>
    /\ archive_file = <<>>
    /\ last_call = NoCall
    /\ SchedIdle
    /\ ExecIdle
    /\ LogIdle
    /\ LoadIdle

\* the call of generate_plan(prompt, targets) of this session
GeneratePlan(prompt, targets) ==
    /\ last_call = NoCall
    /\ last_call' = [op |-> "generate_plan", prompt |-> prompt, targets |-> targets,
                     result |-> generate_plan(prompt, targets)]
    /\ UNCHANGED <<hookVars, exists, reads, plan_exists, archive_file, logVars, schedVars,
                   execVars, loadVars>>

\* save_plan lines 185-189: the generated plan is written to plan.json
SaveGeneratedPlan ==
    /\ last_call.op = "generate_plan"
    /\ ~ plan_exists
    /\ plan' = last_call.result.tasks
    /\ plan_exists' = TRUE
    /\ UNCHANGED <<log, exists, reads, archive_file, last_call, logVars, schedVars,
                   execVars, loadVars>>

PlanNext ==
    \/ \E prompt \in Prompts, targets \in TargetLists \cup {<<None>>} :
           GeneratePlan(prompt, targets)
    \/ SaveGeneratedPlan

SpecPlan == PlanInit /\ [][PlanNext]_vars

(***************************************************************************)
(* Claims on the plan generator, checked under SpecPlan                    *)
(***************************************************************************)
\* the targets a call of generate_plan works on
TargetsOf(call) == IF call.targets = <<None>> THEN call.prompt.targets ELSE call.targets

\* C31: generate_plan with n > 1 targets yields n worker tasks w1..wn
\* without dependencies, then one merge task w(n+1) that depends on exactly
\* w1..wn; with one target (or none: the default target) a single task and
\* no merge task; in every case the ids are unique, total_tasks is the number
\* of tasks, every dependency resolves and the plan is acyclic.  The plan
\* written to plan.json is the generated one.
C31_GeneratedPlanShape ==
    /\ last_call.op = "generate_plan" =>
           LET n == Len(TargetsOf(last_call))
               generated == last_call.result.tasks
           IN  /\ n > 1 =>
                     /\ Len(generated) = n + 1
                     /\ \A i \in 1..n :
                            /\ generated[i].id = "w" \o ToString(i)
                            /\ generated[i].dependencies = {}
                            /\ generated[i].target = TargetsOf(last_call)[i]
                     /\ generated[n + 1].id = "w" \o ToString(n + 1)
                     /\ generated[n + 1].dependencies = {"w" \o ToString(i) : i \in 1..n}
               /\ n <= 1 =>
                     /\ Len(generated) = 1
                     /\ generated[1].id = "w1"
                     /\ generated[1].dependencies = {}
               /\ \A i, j \in DOMAIN generated : generated[i].id = generated[j].id => i = j
               /\ last_call.result.total_tasks = Len(generated)
               /\ DepsResolve(PlanAsTasks(generated))
               /\ Acyclic(PlanAsTasks(generated))
    /\ plan_exists => plan = last_call.result.tasks

\* C31's case: the prompt names three targets, two of them the same; the
\* plan written to plan.json has three workers and the merge task w4
C31_Witness ==
    /\ plan_exists
    /\ last_call.targets = <<None>>
    /\ last_call.prompt.targets = <<"A", "B", "A">>
    /\ Len(plan) = 4
    /\ plan[4].id = "w4"
    /\ plan[4].dependencies = {"w1", "w2", "w3"}

(***************************************************************************)
(* read_events, get_worker_events and get_latest_event on a log that holds  *)
(* lines which are valid JSON without being an event record.  json.loads    *)
(* returns an int, a str or a dict; `.get` exists on the dict only, and     *)
(* the readers catch json.JSONDecodeError alone.                            *)
(***************************************************************************)
MaxValueLines == 2

\* json.loads gave a dict
IsDict(v) == ~ IsNum(v) /\ ~ IsStr(v)

\* the values of the non-blank lines that json.loads accepts, in file order
RECURSIVE loaded_values(_)
loaded_values(lines) ==
    IF lines = <<>> THEN <<>>
    ELSE LET line == strip(Head(lines))
             parsed == IF line = <<>> THEN ParseError ELSE loads(line)
         IN  (IF parsed.ok
              THEN <<IF IsObj(parsed.value) THEN parsed.value.obj ELSE parsed.value>>
              ELSE <<>>) \o loaded_values(Tail(lines))

\* read_events lines 109-131 with its exceptions: with a truthy `since`,
\* line 124 calls event.get on whatever json.loads returned
read_events_call(there, f, since) ==
    LET values == IF there THEN loaded_values(split_lines(f)) ELSE <<>>
    IN  IF since # <<>> /\ \E k \in DOMAIN values : ~ IsDict(values[k])
        THEN Raised("AttributeError")
        ELSE Returned(read_events_at(there, f, since))

\* get_worker_events lines 143-144: e.get("worker_id") on every element
get_worker_events(there, f, wid) ==
    LET all_events == read_events_at(there, f, <<>>)
        Mine(e) == "worker_id" \in DOMAIN e /\ e["worker_id"] = JStr(wid)
    IN  IF \E k \in DOMAIN all_events : ~ IsDict(all_events[k])
        THEN Raised("AttributeError")
        ELSE Returned(SelectSeq(all_events, Mine))

\* get_latest_event lines 156-157: events[-1] if events else None
get_latest_event(there, f, wid) ==
    LET events == get_worker_events(there, f, wid)
    IN  IF events.raised THEN events
        ELSE IF events.value = <<>> THEN Returned(None)
        ELSE Returned(events.value[Len(events.value)])

\* lines that are valid JSON and no event record: a number, a string, an
\* object without worker_id, type and timestamp
ValueLines == {<<"50">>, <<QUOTE, "x", QUOTE>>, <<LBRACE, RBRACE>>}

ValuesInit ==
    /\ plan_exists = TRUE
    /\ plan = ReadPlan
    /\ exists = FALSE
    /\ file = <<>>
    /\ log = <<>>
    /\ reads = <<>>
    /\ archive_file = <<>>
    /\ last_call = NoCall
    /\ producers = {"p1"}
    /\ logger = [p1 |-> "L1", p2 |-> "L2"]
    /\ lock = [l \in LoggerIds |-> "free"]
    /\ ppc = [p \in Producers |-> "idle"]
    /\ pend = [p \in Producers |-> <<>>]
    /\ emitted = [p \in Producers |-> <<>>]
    /\ now = 1
    /\ SchedIdle
    /\ ExecIdle
    /\ LoadIdle

\* emit, from call to return
ValuesEmit ==
    /\ line_count(file) < MaxValueLines
    /\ \E e \in ReadEvents, t \in DOMAIN Timestamps :
          LET event == Put(e, "timestamp", JStr(<<Timestamps[t]>>))
          IN  /\ now' = t
              /\ emitted' = [emitted EXCEPT !["p1"] = Append(@, event)]
              /\ file' = append(file, dumps(event) \o <<NL>>)
    /\ exists' = TRUE
    /\ log' = hook_lines(exists', file')
    /\ last_call' = [op |-> "emit", live |-> LiveLog]
    /\ UNCHANGED <<plan, reads, plan_exists, archive_file, producers, logger, lock, ppc,
                   pend, schedVars, execVars, loadVars>>

\* another writer puts a line of valid JSON into the file
ValuesForeignWrite ==
    /\ line_count(file) < MaxValueLines
    /\ \E text \in ValueLines : file' = append(file, text \o <<NL>>)
    /\ exists' = TRUE
    /\ log' = hook_lines(exists', file')
    /\ last_call' = [op |-> "write", live |-> LiveLog]
    /\ UNCHANGED <<plan, reads, plan_exists, archive_file, producers, logger, lock, ppc,
                   pend, emitted, now, schedVars, execVars, loadVars>>

ValuesRead(since) ==
    /\ last_call' = [op |-> "read_events", since |-> since, live |-> LiveLog,
                     result |-> read_events_call(exists, file, since)]
    /\ UNCHANGED <<hookVars, exists, reads, plan_exists, archive_file, logVars, schedVars,
                   execVars, loadVars>>

ValuesWorkerEvents(wid) ==
    /\ last_call' = [op |-> "get_worker_events", worker_id |-> wid, live |-> LiveLog,
                     result |-> get_worker_events(exists, file, wid)]
    /\ UNCHANGED <<hookVars, exists, reads, plan_exists, archive_file, logVars, schedVars,
                   execVars, loadVars>>

ValuesLatestEvent(wid) ==
    /\ last_call' = [op |-> "get_latest_event", worker_id |-> wid, live |-> LiveLog,
                     result |-> get_latest_event(exists, file, wid)]
    /\ UNCHANGED <<hookVars, exists, reads, plan_exists, archive_file, logVars, schedVars,
                   execVars, loadVars>>

ValuesNext ==
    \/ ValuesEmit
    \/ ValuesForeignWrite
    \/ \E since \in SinceArgs : ValuesRead(since)
    \/ \E w \in {<<"w1">>, <<"w2">>} : ValuesWorkerEvents(w)
    \/ \E w \in {<<"w1">>, <<"w2">>} : ValuesLatestEvent(w)

SpecValues == ValuesInit /\ [][ValuesNext]_vars

(***************************************************************************)
(* Claims on the readers of the log, checked under SpecValues              *)
(***************************************************************************)
\* a JSON object with worker_id, type and timestamp
IsEventRecord(v) == IsDict(v) /\ {"worker_id", "type", "timestamp"} \subseteq DOMAIN v

LogReaders == {"read_events", "get_worker_events", "get_latest_event"}

\* C34: every element read_events returns is a valid event record: a line
\* that is JSON without being one is skipped; get_worker_events and
\* get_latest_event never fail on the contents of the log.
C34_OnlyEventRecords ==
    last_call.op \in LogReaders =>
        /\ ~ last_call.result.raised
        /\ last_call.op = "read_events" =>
               \A k \in DOMAIN last_call.result.value :
                   IsEventRecord(last_call.result.value[k])

\* what the code does give: on a log whose JSON lines are all event records
\* the three readers return, and return event records
C34_WhenLinesAreRecords ==
    (/\ last_call.op \in LogReaders
     /\ \A k \in DOMAIN loaded_values(split_lines(file)) :
            IsEventRecord(loaded_values(split_lines(file))[k]))
        => /\ ~ last_call.result.raised
           /\ last_call.op = "read_events" =>
                  \A k \in DOMAIN last_call.result.value :
                      IsEventRecord(last_call.result.value[k])

(***************************************************************************)
(* Incremental reading: a consumer that calls read_events with the          *)
(* timestamp of the last record it has received, while two producers emit   *)
(* and the clock advances.  `reads` holds the records received so far.      *)
(***************************************************************************)
\* the calls of emit made while the consumer reads
MaxPollEmits == 2

\* the consumer stops calling once it holds that many records (a consumer
\* whose last record carries no timestamp reads the whole log again, for ever)
MaxReceived == 3

\* the consumer's `since`: nothing received yet, None
Cursor == IF reads = <<>> THEN <<>> ELSE timestamp_of(reads[Len(reads)])

\* one call read_events(since = Cursor); the result is added to what the
\* consumer holds
Poll ==
    /\ Len(reads) < MaxReceived
    /\ \E events \in {read_events_at(exists, file, Cursor)} :
          /\ reads' = reads \o events
          /\ last_call' = [op |-> "read_events", since |-> Cursor, live |-> LiveLog,
                           result |-> Returned(events)]
    /\ UNCHANGED <<exists, plan_exists, archive_file, hookVars, logVars, schedVars,
                   execVars, loadVars>>

\* the producers are threads that emit through one EventLogger, so that
\* its _lock excludes their writes; the consumer holds nothing yet
PollInit ==
    /\ LogInit
    /\ logger["p1"] = logger["p2"]

PollNext ==
    \/ Tick
    \/ \E p \in Producers : EmitCalls < MaxPollEmits /\ EmitStamp(p)
    \/ \E p \in Producers : EmitLock(p)
    \/ \E p \in Producers : EmitWrite(p)
    \/ \E p \in Producers : EmitWritePart(p)
    \/ Poll

SpecPoll == PollInit /\ [][PollNext]_vars

(***************************************************************************)
(* Claims on incremental reading, checked under SpecPoll                   *)
(***************************************************************************)
\* how often the record r stands in the sequence s
Occurrences(s, r) == Cardinality({k \in DOMAIN s : s[k] = r})

\* the consumer has just called: the file is as the call found it
JustPolled == last_call.op = "read_events" /\ last_call.live.file = file

LaterThan(ts, since) ==
    since = <<>> \/ (ts # <<>> /\ TsRank(ts[1]) > TsRank(since[1]))

MaxSoundLog == 3

GateRecords ==
    UNION {{StartEvent(w, "T1"), DoneEvent(w, "success", "T1"),
            DoneEvent(w, "failed", "T1")} : w \in IdSet}

GateLogsInit ==
    /\ plan \in GatePlans
    /\ log = <<>>
    /\ SchedIdle
    /\ ExecIdle
    /\ LogIdle
    /\ LoadIdle
    /\ ReadIdle

\* a producer appends one record to events.jsonl
GateLogsAppend ==
    /\ Len(log) < MaxSoundLog
    /\ \E e \in GateRecords : log' = Append(log, e)
    /\ UNCHANGED <<plan, notHookVars>>

GateLogsNext == GateLogsAppend

SpecGateLogs == GateLogsInit /\ [][GateLogsNext]_vars

(***************************************************************************)
(* Claims on the progress of the readiness gate                            *)
(***************************************************************************)
\* the dependency graph of the plan is acyclic and every dependency resolves
SoundPlan(p) == DepsResolve(PlanAsTasks(p)) /\ Acyclic(PlanAsTasks(p))

\* each started task has a done(success) event
StartedAreDone == \A w \in PlanTaskIds(plan) : HasEvent(w, "start") => HasDoneSuccess(w)

\* C38 (as stated): for every sound plan, in every log where each started
\* task has a done(success) event and at least one task has no start event,
\* get_ready_tasks is non-empty.
C38_ReadyWhileUnstarted ==
    (/\ SoundPlan(plan)
     /\ StartedAreDone
     /\ \E w \in PlanTaskIds(plan) : ~ HasEvent(w, "start"))
        => get_ready_tasks(log, plan) # <<>>

\* C38 (amended): for every sound plan, in every log where each started task
\* has a done(success) event and at least one task has neither a start event
\* nor a done(success) event, get_ready_tasks is non-empty.
C38_ReadyWhileUndone ==
    (/\ SoundPlan(plan)
     /\ StartedAreDone
     /\ \E w \in PlanTaskIds(plan) : ~ HasEvent(w, "start") /\ ~ HasDoneSuccess(w))
        => get_ready_tasks(log, plan) # <<>>

\* C38's case: w2 and w3 depend on w1, which was started and reported
\* success; the two are ready
C38_Witness ==
    /\ plan[1].dependencies = {}
    /\ plan[2].dependencies = {"w1"}
    /\ plan[3].dependencies = {"w1"}
    /\ log = <<StartEvent("w1", "T1"), DoneEvent("w1", "success", "T1")>>
    /\ get_ready_tasks(log, plan) = <<"w2", "w3">>

(***************************************************************************)
(* SpecDrive: a driver over the gate.  It starts the tasks that             *)
(* get_ready_tasks returns, and every started task reports done(success).   *)
(* Both steps are taken whenever they stay possible (weak fairness): the    *)
(* driver polls again, a worker that was started ends.                      *)
(***************************************************************************)
DriveInit ==
    /\ plan \in {p \in GatePlans : SoundPlan(p)}
    /\ log = <<>>
    /\ SchedIdle
    /\ ExecIdle
    /\ LogIdle
    /\ LoadIdle
    /\ ReadIdle

\* the driver calls get_ready_tasks and starts one of the ids returned
DriveStart(w) ==
    /\ w \in Range(get_ready_tasks(log, plan))
    /\ log' = Append(log, StartEvent(w, "T1"))
    /\ UNCHANGED <<plan, notHookVars>>

\* a started task finishes with done(success)
DriveFinish(w) ==
    /\ HasEvent(w, "start")
    /\ ~ HasDoneSuccess(w)
    /\ log' = Append(log, DoneEvent(w, "success", "T1"))
    /\ UNCHANGED <<plan, notHookVars>>

DriveNext ==
    \/ \E w \in IdSet : DriveStart(w)
    \/ \E w \in IdSet : DriveFinish(w)

SpecDrive == DriveInit /\ [][DriveNext]_vars /\ WF_vars(DriveNext)

\* every task of the plan has a done(success) event
AllDone == \A w \in PlanTaskIds(plan) : HasDoneSuccess(w)

\* the second half of C38: the driver eventually brings every task of a
\* sound plan to done
C38_DriverFinishes == <> AllDone

\* the driver starts no task twice
C38_DriverStartsOnce ==
    \A w \in PlanTaskIds(plan) :
        LET Mine(l) == l.worker_id = w /\ l.type = "start"
        IN  Len(SelectSeq(log, Mine)) <= 1

=============================================================================
